---------------------------- MODULE Spec2Model ----------------------------
(***************************************************************************)
(* VeriSure media forensics: the signal extractors of                      *)
(* backend/forensics.py (analyze_image, analyze_video, analyze_audio), the *)
(* evidence fusion ladder fuse_evidence, and the JPEG ghost detector of    *)
(* backend/advanced_forensics.py.                                          *)
(*                                                                         *)
(* Python values that may be None are tagged records: [t |-> "None"],      *)
(* [t |-> "str", v |-> ..], [t |-> "list", v |-> ..], [t |-> "dict", ..].  *)
(* A dict is a function from its keys; a missing key is a key outside      *)
(* DOMAIN.  Strings that the code lower-cases and searches are sequences   *)
(* of one-character strings, so that lower() and `in` are computed.        *)
(***************************************************************************)
EXTENDS Integers, Sequences, FiniteSets, TLC

VARIABLES pc, media, result, opinion, verdict, first, task, files

vars == <<pc, media, result, opinion, verdict, first, task, files>>

----------------------------------------------------------------------------
(* Bounds of the model.                                                    *)

\* longest human/ai/manipulation signal list of a generic forensic bucket
MaxSignals == 3
\* longest inconclusive signal list of a generic forensic bucket
MaxInconclusive == 1
\* longest ai_signals list of a secondary opinion
MaxOpinionSignals == 4

----------------------------------------------------------------------------
(* Python values.                                                          *)

PyNone == [t |-> "None"]
PyStr(s) == [t |-> "str", v |-> s]
PyList(l) == [t |-> "list", v |-> l]
PyDict(d) == [t |-> "dict", v |-> d]

NONE == "-"

EmptyDict == [k \in {} |-> PyNone]

\* d.get(k, default)
Get(d, k, default) == IF k \in DOMAIN d THEN d[k] ELSE default

Min(a, b) == IF a < b THEN a ELSE b

\* the slice without its end
TakeAll(l, n) == l

\* l[:n]
Take(l, n) == SubSeq(l, 1, Min(n, Len(l)))

\* [f(x) for x in l]
MapSeq(f(_), l) == [i \in 1..Len(l) |-> f(l[i])]

UpperChars == <<"A","B","C","D","E","F","G","H","I","J","K","L","M","N","O","P","Q","R","S","T","U","V","W","X","Y","Z">>
LowerChars == <<"a","b","c","d","e","f","g","h","i","j","k","l","m","n","o","p","q","r","s","t","u","v","w","x","y","z">>

LowerChar(c) ==
    IF \E i \in 1..26 : UpperChars[i] = c
    THEN LowerChars[CHOOSE i \in 1..26 : UpperChars[i] = c]
    ELSE c

\* s.lower()
Lower(s) == [i \in 1..Len(s) |-> LowerChar(s[i])]

\* sub in s
Contains(s, sub) ==
    \E i \in 0..(Len(s) - Len(sub)) :
        \A j \in 1..Len(sub) : s[i + j] = sub[j]

----------------------------------------------------------------------------
(* fuse_evidence.                                                          *)

likely_ai == <<"l","i","k","e","l","y"," ","a","i">>
ai_generated == <<"a","i","-","g","e","n","e","r","a","t","e","d">>
likely_original == <<"l","i","k","e","l","y"," ","o","r","i","g","i","n","a","l">>
likely_human == <<"l","i","k","e","l","y"," ","h","u","m","a","n">>

\* a default classification that names an AI generation
LIKELY_AI_DEFAULT == <<"L","i","k","e","l","y"," ","A","I">>

UNCLEAR_MIXED == <<"U","n","c","l","e","a","r"," ","/"," ","M","i","x","e","d"," ","S","i","g","n","a","l","s">>

Raised(err) ==
    [raised |-> TRUE, error |-> err, classification |-> NONE,
     confidence |-> NONE, reason |-> <<>>, indicators |-> <<>>]

Verdict(classification, confidence, reason, all_indicators) ==
    [raised |-> FALSE, error |-> NONE, classification |-> classification,
     confidence |-> confidence, reason |-> reason, indicators |-> all_indicators]

Prefixed(prefix, l) == [i \in 1..Len(l) |-> <<prefix, l[i]>>]

\* the test on the classification as written, not lowered
AiAgreesAiGeneratedAsWritten(ai_classification) ==
    \/ Contains(ai_classification, likely_ai)
    \/ Contains(ai_classification, ai_generated)

\* 'likely ai' in c.lower() or 'ai-generated' in c.lower()
AiAgreesAiGenerated(ai_classification) ==
    \/ Contains(Lower(ai_classification), likely_ai)
    \/ Contains(Lower(ai_classification), ai_generated)

\* the test on the classification as written, not lowered
AiAgreesOriginalAsWritten(ai_classification) ==
    \/ Contains(ai_classification, likely_original)
    \/ Contains(ai_classification, likely_human)

\* 'likely original' in c.lower() or 'likely human' in c.lower()
AiAgreesOriginal(ai_classification) ==
    \/ Contains(Lower(ai_classification), likely_original)
    \/ Contains(Lower(ai_classification), likely_human)

\* the test with 'high' alone in the list
AiOpinionStrongHighOnly(ai_confidence) ==
    ai_confidence \in {PyStr("high")}

\* the test with 'low' in the list
AiOpinionStrongOrLow(ai_confidence) ==
    ai_confidence \in {PyStr("high"), PyStr("medium"), PyStr("low")}

\* ai_confidence in ['high', 'medium']
AiOpinionStrong(ai_confidence) ==
    ai_confidence \in {PyStr("high"), PyStr("medium")}

\* the guard of RULE 1 without its count of indicators
StrongAiEvidenceOfAnyCount(num_ai, num_human) == num_human = 0

\* the guard with a fourth indicator asked for
StrongAiEvidenceOfFour(num_ai, num_human) == num_ai >= 4 /\ num_human = 0

\* the guard of the first branch of RULE 1
StrongAiEvidence(num_ai, num_human) == num_ai >= 3 /\ num_human = 0

\* the confidence with the third manipulation signal not counted
HybridConfidenceAboveThree(num_manipulation) ==
    IF num_manipulation > 3 THEN "high" ELSE "medium"

\* the confidence with two manipulation signals counted as strong
HybridConfidenceFromTwo(num_manipulation) ==
    IF num_manipulation >= 2 THEN "high" ELSE "medium"

\* the confidence of the first branch of RULE 3
HybridConfidence(num_manipulation) ==
    IF num_manipulation >= 3 THEN "high" ELSE "medium"

\* the guard of the first branch of RULE 4 without its comparison
MoreAiThanHumanOrNot(num_ai, num_human) == num_ai >= 1

\* num_ai > num_human, of the first branch of RULE 4
MoreAiThanHuman(num_ai, num_human) == num_ai > num_human

\* the guard of RULE 6 with one signal counted as none
InsufficientEvidenceUpToOne(total_evidence, num_inconclusive) ==
    total_evidence <= 1 \/ num_inconclusive > 0

\* the guard of RULE 6
InsufficientEvidence(total_evidence, num_inconclusive) ==
    total_evidence < 1 \/ num_inconclusive > 0

\* the rule ladder, once every field has been read without an exception
FuseRules(num_human, num_ai, num_manipulation, num_inconclusive, ai_classification, ai_confidence, all_indicators) ==
    LET total_evidence == num_human + num_ai + num_manipulation
        ai_agrees_ai_generated == AiAgreesAiGenerated(ai_classification)
        ai_agrees_original == AiAgreesOriginal(ai_classification)
        ai_opinion_strong == AiOpinionStrong(ai_confidence)
    IN
    \* RULE 1: Strong AI-Generated Evidence
    IF StrongAiEvidence(num_ai, num_human) THEN
        Verdict("Likely AI-Generated", "high",
                <<"Strong forensic evidence: {num_ai} AI generation indicators detected with no authentic signals", num_ai>>,
                all_indicators)
    ELSE IF num_ai >= 2 /\ num_human = 0 THEN
        IF ai_agrees_ai_generated /\ ai_opinion_strong THEN
            Verdict("Likely AI-Generated", "high",
                    <<"Forensic analysis ({num_ai} AI indicators) strongly supported by AI opinion analysis", num_ai>>,
                    all_indicators)
        ELSE
            Verdict("Likely AI-Generated", "medium",
                    <<"Forensic analysis detected {num_ai} AI generation indicators with no human capture signals", num_ai>>,
                    all_indicators)
    ELSE IF num_ai >= 1 /\ num_human = 0 /\ ai_agrees_ai_generated /\ ai_opinion_strong THEN
        Verdict("Likely AI-Generated", "medium",
                <<"Forensic AI indicator combined with strong AI opinion suggests synthetic content">>,
                all_indicators)
    \* RULE 2: Strong Human/Original Evidence
    ELSE IF num_human >= 3 /\ num_ai = 0 THEN
        Verdict("Likely Original", "high",
                <<"Strong authenticity: {num_human} genuine capture signals with no AI indicators", num_human>>,
                all_indicators)
    ELSE IF num_human >= 2 /\ num_ai = 0 THEN
        IF ai_agrees_original /\ ai_opinion_strong THEN
            Verdict("Likely Original", "high",
                    <<"Forensic authenticity ({num_human} signals) confirmed by AI visual analysis", num_human>>,
                    all_indicators)
        ELSE
            Verdict("Likely Original", "medium",
                    <<"Forensic analysis detected {num_human} authentic capture signals with no AI indicators", num_human>>,
                    all_indicators)
    ELSE IF num_human >= 1 /\ num_ai = 0 /\ ai_agrees_original /\ ai_opinion_strong THEN
        Verdict("Likely Original", "medium",
                <<"Authentic metadata combined with AI opinion suggests original content">>,
                all_indicators)
    \* RULE 3: Hybrid / Manipulated (human source + editing/manipulation)
    ELSE IF num_human >= 1 /\ num_manipulation >= 2 THEN
        Verdict("Hybrid / Manipulated",
                HybridConfidence(num_manipulation),
                <<"Original content detected with {num_manipulation} manipulation indicators (edited/processed)", num_manipulation>>,
                all_indicators)
    ELSE IF num_human >= 1 /\ num_manipulation >= 1 THEN
        Verdict("Hybrid / Manipulated", "medium",
                <<"Authentic source with editing artifacts detected">>,
                all_indicators)
    \* RULE 4: Conflicting Evidence
    ELSE IF num_human >= 1 /\ num_ai >= 1 THEN
        IF MoreAiThanHuman(num_ai, num_human) /\ ai_agrees_ai_generated THEN
            Verdict("Likely AI-Generated", "low",
                    <<"Mixed signals: {num_ai} AI vs {num_human} human indicators, leaning AI-generated", num_ai, num_human>>,
                    all_indicators)
        ELSE IF num_human > num_ai /\ ai_agrees_original THEN
            Verdict("Likely Original", "low",
                    <<"Mixed signals: {num_human} human vs {num_ai} AI indicators, leaning original", num_human, num_ai>>,
                    all_indicators)
        ELSE
            Verdict("Unclear / Mixed Signals", "low",
                    <<"Conflicting evidence: {num_human} human signals vs {num_ai} AI indicators", num_human, num_ai>>,
                    all_indicators)
    \* RULE 5: Single strong indicator with AI opinion support
    ELSE IF total_evidence >= 1 /\ total_evidence < 2
            /\ num_ai = 1 /\ ai_agrees_ai_generated /\ ai_opinion_strong THEN
        Verdict("Likely AI-Generated", "low",
                <<"Limited forensic evidence supported by AI opinion suggests synthetic content">>,
                all_indicators)
    ELSE IF total_evidence >= 1 /\ total_evidence < 2
            /\ num_human = 1 /\ ai_agrees_original /\ ai_opinion_strong THEN
        Verdict("Likely Original", "low",
                <<"Limited forensic evidence supported by AI opinion suggests original content">>,
                all_indicators)
    \* RULE 6: Insufficient evidence - use AI opinion as weak signal
    ELSE IF InsufficientEvidence(total_evidence, num_inconclusive) THEN
        IF ai_agrees_ai_generated /\ ai_opinion_strong THEN
            Verdict("Unclear / Mixed Signals", "low",
                    <<"No forensic evidence available; AI opinion suggests synthetic content (weak signal)">>,
                    all_indicators)
        ELSE IF ai_agrees_original /\ ai_opinion_strong THEN
            Verdict("Unclear / Mixed Signals", "low",
                    <<"No forensic evidence available; AI opinion suggests original content (weak signal)">>,
                    all_indicators)
        ELSE
            Verdict("Inconclusive", "low",
                    <<"Insufficient evidence for classification ({total_evidence} indicators detected)", total_evidence>>,
                    all_indicators)
    \* Default: Inconclusive
    ELSE
        Verdict("Inconclusive", "low",
                <<"Evidence pattern does not match classification rules">>,
                all_indicators)

\* fuse_evidence(forensic_analysis, ai_analysis): the verdict, or the
\* exception that a None where a dict, list or str is used raises
fuse_evidence(forensic_analysis, ai_analysis) ==
    LET forensic_indicators == Get(forensic_analysis, "forensic_indicators", PyDict(EmptyDict))
    IN
    IF forensic_indicators.t # "dict" THEN Raised("AttributeError") ELSE
    LET human_signals == Get(forensic_indicators.v, "human_signals", <<>>)
        ai_signals == Get(forensic_indicators.v, "ai_signals", <<>>)
        manipulation_signals == Get(forensic_indicators.v, "manipulation_signals", <<>>)
        inconclusive_signals == Get(forensic_indicators.v, "inconclusive_signals", <<>>)
        ai_opinion == Get(ai_analysis, "origin", PyDict(EmptyDict))
    IN
    IF ai_opinion.t # "dict" THEN Raised("AttributeError") ELSE
    LET ai_classification == Get(ai_opinion.v, "classification", PyStr(UNCLEAR_MIXED))
        ai_confidence == Get(ai_opinion.v, "confidence", PyStr("low"))
        ai_indicators == Get(ai_analysis, "ai_signals", PyList(<<>>))
    IN
    IF ai_indicators.t # "list" THEN Raised("TypeError") ELSE
    LET all_indicators ==
            Prefixed("[FORENSIC] ", human_signals)
            \o Prefixed("[FORENSIC AI] ", ai_signals)
            \o Prefixed("[FORENSIC EDIT] ", manipulation_signals)
            \o Prefixed("[AI OPINION] ", Take(ai_indicators.v, 3))
    IN
    IF ai_classification.t # "str" THEN Raised("AttributeError") ELSE
    FuseRules(Len(human_signals), Len(ai_signals), Len(manipulation_signals),
              Len(inconclusive_signals), ai_classification.v, ai_confidence,
              all_indicators)

----------------------------------------------------------------------------
(* ForensicAnalyzer: the image extractor.                                  *)
(*                                                                         *)
(* An image is described by what the decoder reports of it: whether        *)
(* Image.open identifies it, whether its pixel data decodes (Image.open is *)
(* lazy: a truncated file is identified and fails when the pixels are      *)
(* loaded), its format, mode, size, info dict, EXIF tags and pixels.       *)
(* Numbers the code rounds to d decimals are integers in units of 10^-d.   *)

\* a signal text: the message and the values formatted into it
Signal(text, n) == <<text, n>>

Opt(cond, sig) == IF cond THEN <<sig>> ELSE <<>>

Bucket(human, ai, manipulation, inconclusive) ==
    [human_signals |-> human, ai_signals |-> ai,
     manipulation_signals |-> manipulation, inconclusive_signals |-> inconclusive]

\* the result of a failure or unavailable path
FailureResult(media_type, err, message) ==
    [media_type |-> media_type, error |-> err,
     forensic_indicators |->
        PyDict(Bucket(<<>>, <<>>, <<>>, <<Signal(message, <<>>)>>))]

ai_generation_keywords ==
    << <<"m","i","d","j","o","u","r","n","e","y">>,
       <<"d","a","l","l","-","e">>,
       <<"d","a","l","l","e">>,
       <<"s","t","a","b","l","e"," ","d","i","f","f","u","s","i","o","n">>,
       <<"a","i">>,
       <<"a","r","t","i","f","i","c","i","a","l"," ","i","n","t","e","l","l","i","g","e","n","c","e">>,
       <<"g","e","n","e","r","a","t","e","d">>,
       <<"s","y","n","t","h","e","t","i","c">>,
       <<"d","e","e","p","f","a","k","e">>,
       <<"g","a","n">>,
       <<"d","i","f","f","u","s","i","o","n">>,
       <<"n","e","u","r","a","l">> >>

\* an extraction that reads no tag
extract_exif_empty(image) == EmptyDict

\* _extract_exif: the tags read, or {} when reading them raised
extract_exif(image) ==
    IF image.exif_raises THEN EmptyDict ELSE image.exif

\* the first field of `fields` that is a key of d, or 0
FirstPresent(fields, d) ==
    LET here == {i \in 1..Len(fields) : fields[i] \in DOMAIN d}
    IN IF here = {} THEN 0 ELSE CHOOSE i \in here : \A j \in here : i <= j

\* the indicators one software field adds: one per keyword found in it
SoftwareHits(exif_data, field) ==
    IF field \notin DOMAIN exif_data THEN <<>>
    ELSE LET software_value == Lower(exif_data[field])
             hits == SelectSeq(ai_generation_keywords,
                               LAMBDA keyword : Contains(software_value, keyword))
         IN [i \in 1..Len(hits) |-> Signal("Software field contains '{keyword}'", hits[i])]

camera_fields == <<"Image Make", "Image Model", "EXIF LensModel", "EXIF LensMake">>
software_fields == <<"Image Software", "Software", "EXIF Software">>
datetime_fields == <<"Image DateTime", "EXIF DateTimeOriginal", "DateTime">>
gps_fields == <<"GPS GPSLatitude", "GPS GPSLongitude">>
expected_fields == <<"Image Make", "Image Model", "EXIF DateTimeOriginal", "EXIF ExifVersion">>

\* _analyze_exif
analyze_exif(exif_data) ==
    IF DOMAIN exif_data = {} THEN
        [has_exif |-> FALSE, camera_info |-> PyNone, software |-> PyNone,
         datetime |-> PyNone, gps |-> PyNone, suspicious_software |-> FALSE,
         missing_expected_fields |-> <<"No EXIF data (common in AI-generated images)">>,
         ai_generation_indicators |-> <<>>]
    ELSE
    LET cam == FirstPresent(camera_fields, exif_data)
        sw == {i \in 1..3 : software_fields[i] \in DOMAIN exif_data}
        lastsw == CHOOSE i \in sw : \A j \in sw : j <= i
        dt == FirstPresent(datetime_fields, exif_data)
        indicators == SoftwareHits(exif_data, software_fields[1])
                      \o SoftwareHits(exif_data, software_fields[2])
                      \o SoftwareHits(exif_data, software_fields[3])
    IN
        [has_exif |-> TRUE,
         camera_info |-> IF cam = 0 THEN PyNone
                         ELSE PyStr(<<camera_fields[cam], exif_data[camera_fields[cam]]>>),
         software |-> IF sw = {} THEN PyNone ELSE PyStr(exif_data[software_fields[lastsw]]),
         datetime |-> IF dt = 0 THEN PyNone ELSE PyStr(exif_data[datetime_fields[dt]]),
         gps |-> IF \E i \in 1..2 : gps_fields[i] \in DOMAIN exif_data
                 THEN PyStr("Present") ELSE PyNone,
         suspicious_software |-> Len(indicators) > 0,
         missing_expected_fields |->
            SelectSeq(expected_fields, LAMBDA field : field \notin DOMAIN exif_data),
         ai_generation_indicators |-> indicators]

\* round(a / b, 2) with scale 100, round(a / b, 4) with scale 10000,
\* in units of 1 / scale
RoundDiv(a, b, scale) == (2 * a * scale + b) \div (2 * b)

\* _analyze_image_properties
analyze_image_properties(image) ==
    [format |-> image.format, mode |-> image.mode,
     width |-> image.width, height |-> image.height,
     aspect_ratio |-> IF image.height > 0
                      THEN RoundDiv(image.width, image.height, 100) ELSE 0,
     has_transparency |-> image.mode \in {"RGBA", "LA", "P"}]

\* len(image.mode)
ModeLen(mode) ==
    CASE mode = "RGB" -> 3 [] mode = "RGBA" -> 4 [] mode = "LA" -> 2
      [] mode = "L" -> 1 [] mode = "P" -> 1 [] OTHER -> 4

\* signals['compression_ratio'] < 0.05, the ratio in ten-thousandths
LowCompressionRatio(compression_ratio) == compression_ratio < 500

\* _analyze_compression
analyze_compression(image) ==
    LET uncompressed_size == image.width * image.height * ModeLen(image.mode)
        base == [format |-> image.format, file_size |-> image.file_size,
                 compression_ratio |-> 0, re_encoding_detected |-> FALSE,
                 re_encoding_indicators |-> <<>>]
    IN
    \* ZeroDivisionError, caught: the signals as initialised
    IF uncompressed_size = 0 THEN base ELSE
    LET compression_ratio == RoundDiv(image.file_size, uncompressed_size, 10000)
    IN
    IF image.format = "JPEG" THEN
        [base EXCEPT
            !.compression_ratio = compression_ratio,
            !.re_encoding_detected = LowCompressionRatio(compression_ratio),
            !.re_encoding_indicators =
                Opt(LowCompressionRatio(compression_ratio),
                    Signal("Unusually high compression (possible multiple re-encodings)", <<>>))
                \o Opt("quality" \in DOMAIN image.info /\ Get(image.info, "quality", 100) < 75,
                       Signal("Low JPEG quality ({quality}) suggests re-encoding",
                              Get(image.info, "quality", 100)))
                \o Opt("quantization" \in DOMAIN image.info,
                       Signal("Non-standard quantization tables detected", <<>>))]
    ELSE IF image.format = "PNG" THEN
        [base EXCEPT
            !.compression_ratio = compression_ratio,
            !.re_encoding_indicators =
                Opt(image.info_mentions_jpeg,
                    Signal("PNG contains JPEG metadata (format conversion)", <<>>))]
    ELSE [base EXCEPT !.compression_ratio = compression_ratio]

\* the integer square root, by bisection
RECURSIVE ISqrtIn(_, _, _)
ISqrtIn(x, lo, hi) ==
    IF lo >= hi THEN lo
    ELSE LET mid == (lo + hi + 1) \div 2
         IN IF mid * mid <= x THEN ISqrtIn(x, mid, hi) ELSE ISqrtIn(x, lo, mid - 1)

ISqrt(x) == ISqrtIn(x, 0, 46340)

RECURSIVE SumSeq(_)
SumSeq(values) ==
    IF Len(values) = 0 THEN 0 ELSE Head(values) + SumSeq(Tail(values))

\* calc_stats: mean and std_dev rounded to 2 decimals, in hundredths
calc_stats(values) ==
    LET n == Len(values)
        total == SumSeq(values)
        squares == SumSeq([i \in 1..n |-> values[i] * values[i]])
    IN [mean |-> RoundDiv(total, n, 100),
        std_dev |-> (2 * ISqrt(10000 * (n * squares - total * total)) + n) \div (2 * n)]

\* avg_std < 20, avg_std being a third of the sum of the three std_dev
VeryLowVariance(std_sum) == std_sum < 3 * 2000

\* avg_std > 100
VeryHighVariance(std_sum) == std_sum > 3 * 10000

\* the positions of a sequence in increasing order
RECURSIVE SeqOfSet(_)
SeqOfSet(S) ==
    IF S = {} THEN <<>>
    ELSE LET m == CHOOSE i \in S : \A j \in S : i <= j
         IN <<m>> \o SeqOfSet(S \ {m})

\* the outcomes of random.sample(pixels, sample_size): the sets of
\* sample_size positions of pixels
Samples(pixels, sample_size) ==
    {T \in SUBSET (1..Len(pixels)) : Cardinality(T) = sample_size}

\* _analyze_image_statistics, `sample` being the positions random.sample drew
analyze_image_statistics(image, sample) ==
    \* the pixel data does not decode, or calc_stats divides by zero: caught
    IF ~image.decodable \/ sample = {} THEN [error |-> "error"] ELSE
    LET at == SeqOfSet(sample)
        sampled_pixels == [i \in 1..Len(at) |-> image.pixels[at[i]]]
        red == calc_stats([i \in 1..Len(at) |-> sampled_pixels[i][1]])
        green == calc_stats([i \in 1..Len(at) |-> sampled_pixels[i][2]])
        blue == calc_stats([i \in 1..Len(at) |-> sampled_pixels[i][3]])
        std_sum == red.std_dev + green.std_dev + blue.std_dev
    IN [red_channel |-> red, green_channel |-> green, blue_channel |-> blue,
        uniformity_score |-> IF VeryLowVariance(std_sum)
                             THEN (2 * (6000 - std_sum) + 60) \div 120 ELSE 0,
        suspicious_patterns |->
            IF VeryLowVariance(std_sum)
            THEN <<"Very low color variance (unnatural uniformity)">>
            ELSE IF VeryHighVariance(std_sum)
            THEN <<"Very high color variance (possible noise injection)">>
            ELSE <<>>]

\* a Python value used as a condition (the tags of the model are never
\* empty strings)
Truthy(x) == x.t # "None"

\* if not indicators['human_signals'] and not indicators['ai_signals']
NoClearSignals(human_signals, ai_signals) ==
    Len(human_signals) = 0 /\ Len(ai_signals) = 0

\* the dimension test with 1024 for 512 and without its second branch
DimensionSignalsOf1024(width, height) ==
    IF width > 0 /\ height > 0 /\ width % 1024 = 0 /\ height % 1024 = 0 THEN
        <<Signal("Dimensions ({width}x{height}) are multiples of 512 (typical of AI generators)", <<width, height>>)>>
    ELSE <<>>

\* the ai signal the image dimensions add
DimensionSignals(width, height) ==
    IF width > 0 /\ height > 0 THEN
        IF width % 512 = 0 /\ height % 512 = 0 THEN
            <<Signal("Dimensions ({width}x{height}) are multiples of 512 (typical of AI generators)", <<width, height>>)>>
        ELSE IF width % 64 = 0 /\ height % 64 = 0 /\ width = height THEN
            <<Signal("Square dimensions ({width}x{height}) in multiples of 64 (typical of AI models)", <<width, height>>)>>
        ELSE <<>>
    ELSE <<>>

\* _extract_forensic_indicators
extract_forensic_indicators(exif_signals, properties, compression_signals, statistical_signals) ==
    LET missing_fields == exif_signals.missing_expected_fields
        width == properties.width
        height == properties.height
        patterns == Get(statistical_signals, "suspicious_patterns", <<>>)
        human_signals ==
            Opt(Truthy(exif_signals.camera_info),
                Signal("Camera metadata present: {camera_info}", exif_signals.camera_info.v))
            \o Opt(Truthy(exif_signals.gps),
                   Signal("GPS coordinates present (typical of real photos)", <<>>))
            \o Opt(Truthy(exif_signals.datetime) /\ ~exif_signals.suspicious_software,
                   Signal("Original capture timestamp present", <<>>))
            \o Opt(Len(missing_fields) = 0 /\ exif_signals.has_exif,
                   Signal("Complete camera EXIF metadata present", <<>>))
        ai_signals ==
            exif_signals.ai_generation_indicators
            \o (IF ~exif_signals.has_exif
                THEN <<Signal("No EXIF metadata (common in AI-generated images)", <<>>)>>
                ELSE Opt(Len(missing_fields) >= 3,
                         Signal("Missing {n} expected camera fields", Len(missing_fields))))
            \o DimensionSignals(width, height)
            \o [i \in 1..Len(patterns) |-> Signal("Statistical anomaly: {pattern}", patterns[i])]
        manipulation_signals ==
            Opt(compression_signals.re_encoding_detected,
                Signal("Multiple re-encodings detected", <<>>))
            \o compression_signals.re_encoding_indicators
            \o Opt(properties.format = "PNG" /\ width % 8 = 0 /\ height % 8 = 0,
                   Signal("PNG with editor-typical dimensions", <<>>))
    IN Bucket(human_signals, ai_signals, manipulation_signals,
              Opt(NoClearSignals(human_signals, ai_signals),
                  Signal("Insufficient forensic evidence to determine origin", <<>>)))

\* analyze_image, `sample` being the positions random.sample drew
analyze_image(image, sample) ==
    \* Image.open raised
    IF ~image.identified THEN
        FailureResult("image", "cannot identify image file",
                      "Analysis failed - insufficient data")
    ELSE
    LET exif_signals == analyze_exif(extract_exif(image))
        properties == analyze_image_properties(image)
        compression_signals == analyze_compression(image)
        statistical_signals == analyze_image_statistics(image, sample)
    IN [media_type |-> "image", exif |-> exif_signals, properties |-> properties,
        compression |-> compression_signals, statistics |-> statistical_signals,
        forensic_indicators |->
            PyDict(extract_forensic_indicators(exif_signals, properties,
                                               compression_signals, statistical_signals))]

----------------------------------------------------------------------------
(* ForensicAnalyzer: the video and audio dispatchers.                      *)

\* _extract_video_forensic_indicators: the body of the method is its
\* docstring alone (the statements meant for it follow the return of
\* _extract_key_frames and never run), so the call returns None
extract_video_forensic_indicators(signals) == PyNone

\* _extract_key_frames: the frames whose extraction succeeded, in order
extract_key_frames(video, duration) ==
    LET timestamps == IF duration > 0
                      THEN <<"10%", "50%", "90%">> ELSE <<"0", "1", "2">>
        got == SelectSeq(<<1, 2, 3>>, LAMBDA i : video.frame_ok[i])
    IN [i \in 1..Len(got) |-> <<"frame", timestamps[got[i]]>>]

\* analyze_video
analyze_video(video) ==
    IF ~video.available THEN
        FailureResult("video", "Video analysis not available",
                      "Video forensics unavailable - install ffmpeg")
    \* ffmpeg.probe raised, or a field of the probe does not parse
    ELSE IF ~video.probe_ok \/ video.duration < 0 THEN
        FailureResult("video", "probe error",
                      "Video analysis failed - insufficient data")
    ELSE
    LET has_video == video.video_stream.t # "None"
        vs == video.video_stream
        signals ==
            [media_type |-> "video",
             format |-> "mov,mp4,m4a,3gp,3g2,mj2",
             duration |-> video.duration,
             size |-> video.size,
             bit_rate |-> video.bit_rate,
             video_codec |-> IF has_video THEN PyStr(vs.v.codec_name) ELSE PyNone,
             video_profile |-> IF has_video THEN PyStr(vs.v.profile) ELSE PyNone,
             frame_rate |-> IF has_video THEN PyStr(vs.v.r_frame_rate) ELSE PyNone,
             width |-> IF has_video THEN vs.v.width ELSE 0,
             height |-> IF has_video THEN vs.v.height ELSE 0,
             has_audio |-> video.has_audio,
             metadata |-> video.tags,
             key_frames |-> extract_key_frames(video, video.duration)]
    IN signals @@ [forensic_indicators |-> extract_video_forensic_indicators(signals)]

\* signals.get('energy_std', 0) < 0.01, in ten-thousandths
UniformEnergy(energy_std) == energy_std < 100

\* _analyze_audio_properties: the properties, or {} when the analysis raised
analyze_audio_properties(audio) ==
    IF audio.properties.t = "None" THEN EmptyDict ELSE audio.properties.v

\* _extract_audio_forensic_indicators; pitch_std in units, silence_ratio and
\* duration in thousandths, energy_std in ten-thousandths
extract_audio_forensic_indicators(signals, metadata) ==
    LET pitch_std == Get(signals, "pitch_std", 0)
        silence_ratio == Get(signals, "silence_ratio", 0)
        speech_segments == Get(signals, "speech_segments", 0)
        energy_std == Get(signals, "energy_std", 0)
        sr == Get(signals, "sample_rate", 0)
        human_signals ==
            Opt(\E key \in {"encoder", "recording_device", "device"} : key \in DOMAIN metadata,
                Signal("Recording device metadata present", <<>>))
            \o Opt(pitch_std > 0 /\ ~(pitch_std < 5) /\ pitch_std > 50 /\ pitch_std < 200,
                   Signal("Natural pitch variance detected", <<>>))
            \o Opt(~(silence_ratio < 50 /\ speech_segments > 0)
                       /\ silence_ratio > 100 /\ speech_segments > 3,
                   Signal("Natural speech patterns with pauses", <<>>))
            \o Opt(sr \in {44100, 48000},
                   Signal("Standard recording sample rate ({sr} Hz)", sr))
        ai_signals ==
            Opt(pitch_std > 0 /\ pitch_std < 5,
                Signal("Very low pitch variance (unnatural for human speech)", <<>>))
            \o Opt(silence_ratio < 50 /\ speech_segments > 0,
                   Signal("Minimal silence gaps (uncommon in natural speech)", <<>>))
            \o Opt(UniformEnergy(energy_std),
                   Signal("Uniform energy levels (unnatural for real recordings)", <<>>))
            \o Opt(sr \in {16000, 22050},
                   Signal("Low sample rate ({sr} Hz) - typical of TTS/AI audio", sr))
    IN Bucket(human_signals, ai_signals, <<>>,
              Opt(Get(signals, "duration", 0) < 1000,
                  Signal("Very short audio clip - limited analysis", <<>>))
              \o Opt(NoClearSignals(human_signals, ai_signals),
                     Signal("Insufficient audio forensic evidence", <<>>)))

\* analyze_audio
analyze_audio(audio) ==
    IF ~audio.available THEN
        FailureResult("audio", "Audio analysis not available",
                      "Audio forensics unavailable")
    \* MutagenFile or librosa.load raised
    ELSE IF ~audio.decode_ok THEN
        FailureResult("audio", "decode error",
                      "Audio analysis failed - insufficient data")
    ELSE
    LET metadata == audio.tags
        signals ==
            analyze_audio_properties(audio) @@
            [media_type |-> "audio", sample_rate |-> audio.sample_rate,
             duration |-> (audio.samples * 1000) \div audio.sample_rate,
             channels |-> 1, metadata |-> metadata]
    IN signals @@ [forensic_indicators |->
                      PyDict(extract_audio_forensic_indicators(signals, metadata))]

----------------------------------------------------------------------------
(* Inputs of the fusion engine: every shape of forensic result and of      *)
(* secondary opinion (the JSON object an external model returned).         *)

GenericSignals(text, n) == [i \in 1..n |-> Signal(text, i)]

GenericBuckets ==
    { Bucket(GenericSignals("human", h), GenericSignals("ai", a),
             GenericSignals("manipulation", m), GenericSignals("inconclusive", i)) :
        h \in 0..MaxSignals, a \in 0..MaxSignals, m \in 0..MaxSignals,
        i \in 0..MaxInconclusive }

\* forensic results as fuse_evidence may receive them: with a bucket, with
\* an empty dict, with None, or with no forensic_indicators entry at all
GenericForensicResults ==
    { [media_type |-> "generic", forensic_indicators |-> PyDict(b)] : b \in GenericBuckets }
    \cup { [media_type |-> "generic", forensic_indicators |-> PyDict(EmptyDict)],
           [media_type |-> "generic", forensic_indicators |-> PyNone],
           [media_type |-> "generic"] }

LIKELY_AI_GENERATED == <<"L","i","k","e","l","y"," ","A","I","-","G","e","n","e","r","a","t","e","d">>
LIKELY_ORIGINAL == <<"L","i","k","e","l","y"," ","O","r","i","g","i","n","a","l">>
LIKELY_HUMAN_UPPER == <<"L","I","K","E","L","Y"," ","H","U","M","A","N">>
AI_GENERATED_BARE == <<"a","i","-","g","e","n","e","r","a","t","e","d">>
GARBLED == <<"?","?","?">>

ClassificationStrings ==
    {LIKELY_AI_GENERATED, LIKELY_ORIGINAL, UNCLEAR_MIXED, LIKELY_HUMAN_UPPER,
     AI_GENERATED_BARE, GARBLED}

ConfidenceStrings == {"low", "medium", "high", "HIGH"}

\* a dict with the keys of `keys` whose value is not the marker ABSENT
ABSENT == [t |-> "absent"]

DictOf(keys, val) == [k \in {x \in keys : val[x].t # "absent"} |-> val[k]]

Origins ==
    {PyNone, ABSENT} \cup
    { PyDict(DictOf({"classification", "confidence"},
                    [classification |-> c, confidence |-> f])) :
        c \in {PyNone, ABSENT} \cup {PyStr(x) : x \in ClassificationStrings},
        f \in {PyNone, ABSENT} \cup {PyStr(x) : x \in ConfidenceStrings} }

OpinionSignalLists ==
    {PyNone, ABSENT} \cup
    { PyList(GenericSignals("opinion ai", n)) : n \in 0..MaxOpinionSignals }

Opinions ==
    { DictOf({"origin", "ai_signals", "human_signals"},
             [origin |-> o, ai_signals |-> s, human_signals |-> h]) :
        o \in Origins, s \in OpinionSignalLists,
        h \in {ABSENT, PyList(<<>>), PyList(GenericSignals("opinion human", 1))} }

\* opinions every field of which, when present, has the type of the data model
WellTyped(op) ==
    /\ Get(op, "origin", PyDict(EmptyDict)).t = "dict"
    /\ Get(Get(op, "origin", PyDict(EmptyDict)).v, "classification", PyStr(<<>>)).t = "str"
    /\ Get(Get(op, "origin", PyDict(EmptyDict)).v, "confidence", PyStr("")).t = "str"
    /\ Get(op, "ai_signals", PyList(<<>>)).t = "list"

----------------------------------------------------------------------------
(* The fusion step on its own: any forensic result, any opinion.           *)

InitFuse ==
    /\ pc = "analyzed"
    /\ media = NONE
    /\ result \in GenericForensicResults
    /\ opinion \in Opinions
    /\ verdict = NONE
    /\ first = <<>>
    /\ task = NONE
    /\ files = {}

----------------------------------------------------------------------------
(* Media inputs.                                                           *)

SW_MIDJOURNEY == <<"M","i","d","j","o","u","r","n","e","y"," ","v","5">>
SW_STABLE_DIFFUSION == <<"S","t","a","b","l","e"," ","D","i","f","f","u","s","i","o","n">>
SW_PHOTOSHOP == <<"A","d","o","b","e"," ","P","h","o","t","o","s","h","o","p">>

\* Make, Model, DateTimeOriginal and GPS coordinates of a camera photo
CameraTags ==
    ("Image Make" :> "Canon") @@ ("Image Model" :> "Canon EOS 5D Mark IV")
    @@ ("EXIF DateTimeOriginal" :> "2024:05:01 10:00:00")
    @@ ("GPS GPSLatitude" :> "[48, 51, 29]") @@ ("GPS GPSLongitude" :> "[2, 17, 40]")

ExifTagSets ==
    { EmptyDict,
      CameraTags,
      CameraTags @@ ("EXIF ExifVersion" :> "0232"),
      ("Image Make" :> "Canon"),
      ("Image Make" :> "Canon") @@ ("Image Model" :> "Canon EOS 5D Mark IV"),
      ("Image Make" :> "Canon") @@ ("EXIF DateTimeOriginal" :> "2024:05:01 10:00:00"),
      ("Image Orientation" :> "Horizontal (normal)"),
      ("Image Software" :> SW_MIDJOURNEY),
      CameraTags @@ ("Image Software" :> SW_PHOTOSHOP),
      CameraTags @@ ("Image Software" :> SW_STABLE_DIFFUSION)
                 @@ ("Software" :> SW_STABLE_DIFFUSION) }

\* width and height
Dimensions == { <<512, 512>>, <<640, 640>>, <<1280, 720>>, <<100, 75>> }

\* mode and len(image_bytes)
ModesAndSizes == { <<"RGB", 1000>>, <<"RGB", 100000>>, <<"L", 100000>> }

\* format, info, and whether str(info) mentions jpeg
FormatsAndInfo ==
    { [format |-> "JPEG", info |-> EmptyDict, mentions_jpeg |-> FALSE],
      [format |-> "JPEG", info |-> ("quality" :> 50), mentions_jpeg |-> FALSE],
      [format |-> "JPEG", info |-> ("quality" :> 90) @@ ("quantization" :> 1),
       mentions_jpeg |-> FALSE],
      [format |-> "PNG", info |-> EmptyDict, mentions_jpeg |-> FALSE],
      [format |-> "PNG", info |-> ("Software" :> 1), mentions_jpeg |-> TRUE] }

\* the values of a colour channel in the pixel lists
ChannelLevels == {0, 100, 250}

\* the longest pixel list
MaxPixels == 3

\* the number of pixels _analyze_image_statistics samples at most: the
\* 10000 of the code, scaled to the pixel lists of the model
SampleCap == 2

\* The pixel lists: grey pixels, in increasing order (random.sample draws
\* positions, so the order of the list does not change what can be drawn).
PixelLists ==
    { [i \in 1..Len(s) |-> <<s[i], s[i], s[i]>>] :
        s \in { q \in UNION { [1..n -> ChannelLevels] : n \in 1..MaxPixels } :
                  \A i \in 1..Len(q) : \A j \in 1..Len(q) : i <= j => q[i] <= q[j] } }

\* an image Image.open does not identify
CorruptImage ==
    [kind |-> "image", identified |-> FALSE, decodable |-> FALSE,
     exif_raises |-> TRUE, exif |-> EmptyDict, format |-> "-", mode |-> "-",
     width |-> 0, height |-> 0, file_size |-> 1000, info |-> EmptyDict,
     info_mentions_jpeg |-> FALSE, pixels |-> <<>>]

\* an image whose header declares a height of 0: width * height *
\* len(mode) is 0
ZeroHeightImage ==
    [CorruptImage EXCEPT !.identified = TRUE, !.exif_raises = FALSE,
        !.format = "JPEG", !.mode = "RGB", !.width = 1280, !.height = 0,
        !.info = ("quality" :> 50)]

\* the images Image.open identifies; the pixel data of a truncated one does
\* not decode
ImageInputs ==
    { [kind |-> "image", identified |-> TRUE, decodable |-> px # <<>>,
       exif_raises |-> FALSE, exif |-> ex, format |-> fi.format, mode |-> ms[1],
       width |-> d[1], height |-> d[2], file_size |-> ms[2], info |-> fi.info,
       info_mentions_jpeg |-> fi.mentions_jpeg, pixels |-> px] :
        ex \in ExifTagSets, d \in Dimensions, fi \in FormatsAndInfo,
        ms \in ModesAndSizes, px \in PixelLists \cup {<<>>} }
    \cup { [CorruptImage EXCEPT !.identified = TRUE, !.format = "JPEG",
              !.mode = "RGB", !.width = 1280, !.height = 720],
           ZeroHeightImage,
           CorruptImage }

VideoStreams ==
    { PyNone,
      PyDict([codec_name |-> "h264", profile |-> "High", r_frame_rate |-> "30/1",
              width |-> 1920, height |-> 1080]),
      PyDict([codec_name |-> "vp9", profile |-> "Profile 0", r_frame_rate |-> "15/1",
              width |-> 512, height |-> 512]) }

\* duration -1 stands for a duration text float() does not parse
VideoInputs ==
    { [kind |-> "video", available |-> av, probe_ok |-> ok, duration |-> du,
       size |-> 1000000, bit_rate |-> br, video_stream |-> vs,
       has_audio |-> au, tags |-> tg, frame_ok |-> fr] :
        av \in BOOLEAN, ok \in BOOLEAN, du \in {-1, 0, 10},
        br \in {800000, 4000000}, vs \in VideoStreams, au \in BOOLEAN,
        tg \in {EmptyDict, ("creation_time" :> "2024-05-01T10:00:00Z")},
        fr \in {<<TRUE, TRUE, TRUE>>, <<TRUE, FALSE, TRUE>>, <<FALSE, FALSE, FALSE>>} }

\* silence_ratio (thousandths) and speech_segments
SilencePatterns == { <<20, 5>>, <<80, 5>>, <<300, 5>>, <<300, 2>>, <<1000, 0>> }

AudioProperties ==
    { PyNone } \cup
    { PyDict([pitch_std |-> p, silence_ratio |-> s[1], speech_segments |-> s[2],
              energy_std |-> e]) :
        p \in {0, 3, 100}, s \in SilencePatterns, e \in {50, 500} }

AudioInputs ==
    { [kind |-> "audio", available |-> av, decode_ok |-> ok, tags |-> tg,
       sample_rate |-> sr, samples |-> n, properties |-> pr] :
        av \in BOOLEAN, ok \in BOOLEAN,
        tg \in {EmptyDict, ("encoder" :> "Lavf58"), ("title" :> "memo")},
        sr \in {8000, 16000, 44100}, n \in {8000, 100000}, pr \in AudioProperties }

\* the mock opinion of test_forensics.py and an opinion sure of an AI origin
PipelineOpinions ==
    { [origin |-> PyDict([classification |-> PyStr(UNCLEAR_MIXED),
                          confidence |-> PyStr("medium")]),
       ai_signals |-> PyList(<<Signal("opinion ai", 1)>>),
       human_signals |-> PyList(<<>>)],
      [origin |-> PyDict([classification |-> PyStr(LIKELY_AI_GENERATED),
                          confidence |-> PyStr("high")]),
       ai_signals |-> PyList(<<Signal("opinion ai", 1)>>),
       human_signals |-> PyList(<<>>)] }

----------------------------------------------------------------------------
(* The analysis of one media item: the extractor, then the fusion.         *)

Init ==
    /\ pc = "start"
    /\ media \in ImageInputs \cup VideoInputs \cup AudioInputs
    /\ result = NONE
    /\ opinion \in PipelineOpinions
    /\ verdict = NONE
    /\ first = <<>>
    /\ task = NONE
    /\ files = {}

\* forensic_result = analyzer.analyze_image(content_bytes)
AnalyzeImage ==
    /\ pc = "start"
    /\ media.kind = "image"
    /\ \E sample \in Samples(media.pixels, Min(SampleCap, Len(media.pixels))) :
          result' = analyze_image(media, sample)
    /\ pc' = "analyzed"
    /\ UNCHANGED <<media, opinion, verdict, first, task, files>>

\* forensic_result = analyzer.analyze_video(content_bytes, filename)
AnalyzeVideo ==
    /\ pc = "start"
    /\ media.kind = "video"
    /\ result' = analyze_video(media)
    /\ pc' = "analyzed"
    /\ UNCHANGED <<media, opinion, verdict, first, task, files>>

\* forensic_result = analyzer.analyze_audio(content_bytes, filename)
AnalyzeAudio ==
    /\ pc = "start"
    /\ media.kind = "audio"
    /\ result' = analyze_audio(media)
    /\ pc' = "analyzed"
    /\ UNCHANGED <<media, opinion, verdict, first, task, files>>

\* final = fuse_evidence(forensic_result, claude_result)
Fuse ==
    /\ pc = "analyzed"
    /\ verdict' = fuse_evidence(result, opinion)
    /\ pc' = "fused"
    /\ UNCHANGED <<media, result, opinion, first, task, files>>

Next == AnalyzeImage \/ AnalyzeVideo \/ AnalyzeAudio \/ Fuse

Spec == Init /\ [][Next]_vars

----------------------------------------------------------------------------
(* The same image analysed a second time, with the same opinion.           *)

InitTwice ==
    /\ pc = "start"
    /\ media \in { m \in ImageInputs :
                     /\ DOMAIN m.exif \subseteq DOMAIN CameraTags
                     /\ m.format = "PNG" /\ m.mode = "RGB" }
    /\ result = NONE
    /\ opinion \in PipelineOpinions
    /\ verdict = NONE
    /\ first = <<>>
    /\ task = NONE
    /\ files = {}

\* the first run is kept and the analysis starts again on the same bytes
Rerun ==
    /\ pc = "fused"
    /\ first = <<>>
    /\ first' = <<[forensic_indicators |-> result.forensic_indicators,
                  verdict |-> verdict]>>
    /\ pc' = "start"
    /\ result' = NONE
    /\ verdict' = NONE
    /\ UNCHANGED <<media, opinion, task, files>>

NextTwice == AnalyzeImage \/ Fuse \/ Rerun

SpecTwice == InitTwice /\ [][NextTwice]_vars

----------------------------------------------------------------------------
(* The fusion step on any forensic result and any opinion.                 *)

NextFuse == Fuse

SpecFuse == InitFuse /\ [][NextFuse]_vars

----------------------------------------------------------------------------
(* AdvancedForensicAnalyzer.jpeg_ghost_detection.  The image is described  *)
(* by the mean squared error of its re-compression at each quality of the  *)
(* ladder.                                                                 *)

ghost_qualities == <<70, 75, 80, 85, 90, 95>>

\* the test with <= on the side of the lower quality
IsLocalMinimumOrPlateau(quality_differences, i) ==
    /\ quality_differences[i][2] <= quality_differences[i - 1][2]
    /\ quality_differences[i][2] < quality_differences[i + 1][2]

\* quality_differences[i][1] is below both of its neighbours
IsLocalMinimum(quality_differences, i) ==
    /\ quality_differences[i][2] < quality_differences[i - 1][2]
    /\ quality_differences[i][2] < quality_differences[i + 1][2]

\* min(quality_differences, key=lambda x: x[1]): the first of the lowest
MinByMse(quality_differences) ==
    LET lowest == {i \in 1..Len(quality_differences) :
                     \A j \in 1..Len(quality_differences) :
                        quality_differences[i][2] <= quality_differences[j][2]}
    IN quality_differences[CHOOSE i \in lowest : \A j \in lowest : i <= j]

\* the branch taken when no local minimum was found
PossiblePreviousCompression(min_diff) == min_diff[1] < 95 /\ min_diff[2] < 50

\* jpeg_ghost_detection
jpeg_ghost_detection(image) ==
    IF ~image.decode_ok THEN
        [error |-> "error", editing_detected |-> FALSE, confidence |-> "none"]
    ELSE
    LET quality_differences ==
            [i \in 1..Len(ghost_qualities) |-> <<ghost_qualities[i], image.mse[i]>>]
        at == SelectSeq([i \in 1..(Len(quality_differences) - 2) |-> i + 1],
                        LAMBDA i : IsLocalMinimum(quality_differences, i))
        minima == [k \in 1..Len(at) |-> quality_differences[at[k]]]
        min_diff == MinByMse(quality_differences)
        levels == [k \in 1..Len(minima) |-> minima[k][1]]
        base == [minima_detected |-> Len(minima),
                 suspected_quality_levels |-> levels,
                 best_match_quality |-> min_diff[1],
                 best_match_difference |-> min_diff[2],
                 editing_detected |-> FALSE, confidence |-> "low",
                 interpretation |-> <<"No clear JPEG ghost signatures detected">>]
    IN
    IF Len(minima) >= 2 THEN
        [base EXCEPT !.editing_detected = TRUE, !.confidence = "high",
            !.interpretation = <<"Multiple compression artifacts detected at quality levels", levels>>]
    ELSE IF Len(minima) = 1 THEN
        [base EXCEPT !.editing_detected = TRUE, !.confidence = "medium",
            !.interpretation = <<"Previous JPEG compression detected at quality", minima[1][1]>>]
    ELSE IF PossiblePreviousCompression(min_diff) THEN
        [base EXCEPT !.editing_detected = TRUE, !.confidence = "low",
            !.interpretation = <<"Possible previous compression at quality", min_diff[1]>>]
    ELSE base

\* the mean squared errors of the model
MseLevels == {20, 40, 50, 60}

GhostInputs ==
    { [kind |-> "ghost", decode_ok |-> TRUE, mse |-> m] :
        m \in [1..Len(ghost_qualities) -> MseLevels] }
    \cup { [kind |-> "ghost", decode_ok |-> FALSE, mse |-> <<>>] }

InitGhost ==
    /\ pc = "start"
    /\ media \in GhostInputs
    /\ result = NONE
    /\ opinion = NONE
    /\ verdict = NONE
    /\ first = <<>>
    /\ task = NONE
    /\ files = {}

\* results['jpeg_ghost'] = self.jpeg_ghost_detection(image_bytes)
JpegGhost ==
    /\ pc = "start"
    /\ media.kind = "ghost"
    /\ result' = jpeg_ghost_detection(media)
    /\ pc' = "analyzed"
    /\ UNCHANGED <<media, opinion, verdict, first, task, files>>

NextGhost == JpegGhost

SpecGhost == InitGhost /\ [][NextGhost]_vars

----------------------------------------------------------------------------
(* The Celery task process_video_analysis.  `task` holds the state the     *)
(* task reports and, at its end, the report it returns.                    *)

\* claude_result of the task: the opinion is not asked for
claude_result ==
    [origin |-> PyDict([classification |-> PyStr(UNCLEAR_MIXED),
                        confidence |-> PyStr("low")]),
     ai_signals |-> PyList(<<>>),
     human_signals |-> PyList(<<>>)]

\* self.update_state(state='PROGRESS', meta={'progress': n})
Progress(n) == [state |-> "PROGRESS", progress |-> n, report |-> NONE]

\* the report of step 4
BuildReport(forensic_result, final) ==
    LET forensic_indicators == Get(forensic_result, "forensic_indicators", PyDict(EmptyDict)).v
        all_forensic_signals ==
            Get(forensic_indicators, "human_signals", <<>>)
            \o Get(forensic_indicators, "ai_signals", <<>>)
            \o Get(forensic_indicators, "manipulation_signals", <<>>)
    IN [origin_verdict |->
           [classification |-> final.classification,
            confidence |-> final.confidence,
            indicators |-> IF final.indicators # <<>> THEN Take(final.indicators, 6)
                           ELSE <<final.reason>>],
        evidence |->
           [signals_detected |-> IF all_forensic_signals # <<>>
                                 THEN Take(all_forensic_signals, 10)
                                 ELSE <<"No technical signals detected">>,
            forensic_notes |-> <<final.reason, final.confidence>>],
        analysis_summary |-> final.reason]

\* the task as the worker receives it; no opinion is held yet
InitTask ==
    /\ pc = "received"
    /\ media \in VideoInputs
    /\ result = NONE
    /\ opinion = EmptyDict
    /\ verdict = NONE
    /\ first = <<>>
    /\ task = [state |-> "PENDING", progress |-> 0, report |-> NONE]
    /\ files = {}

\* the worker starts the task: progress 10
TaskStart ==
    /\ pc = "received"
    /\ pc' = "forensics"
    /\ task' = Progress(10)
    /\ UNCHANGED <<media, result, opinion, verdict, first, files>>

\* Step 1: forensic_result = analyzer.analyze_video(video_bytes, filename)
TaskForensics ==
    /\ pc = "forensics"
    /\ pc' = "opinion"
    /\ result' = analyze_video(media)
    /\ task' = Progress(40)
    /\ UNCHANGED <<media, opinion, verdict, first, files>>

\* Step 2: the fixed opinion
TaskOpinion ==
    /\ pc = "opinion"
    /\ pc' = "fuse"
    /\ opinion' = claude_result
    /\ task' = Progress(60)
    /\ UNCHANGED <<media, result, verdict, first, files>>

\* Step 3: fuse_evidence(forensic_result, claude_result); an exception
\* goes to the except clause: state FAILURE, and the exception is raised
\* again
TaskFuse ==
    /\ pc = "fuse"
    /\ pc' = IF fuse_evidence(result, opinion).raised THEN "done" ELSE "report"
    /\ verdict' = fuse_evidence(result, opinion)
    /\ task' = IF verdict'.raised
               THEN [state |-> "FAILURE", progress |-> task.progress, report |-> NONE]
               ELSE task
    /\ UNCHANGED <<media, result, opinion, first, files>>

\* Step 4: the report, progress 80 and 100
TaskReport ==
    /\ pc = "report"
    /\ pc' = "return"
    /\ task' = [Progress(100) EXCEPT !.report = BuildReport(result, verdict)]
    /\ UNCHANGED <<media, result, opinion, verdict, first, files>>

\* return report: Celery stores the result with state SUCCESS
TaskReturn ==
    /\ pc = "return"
    /\ pc' = "done"
    /\ task' = [task EXCEPT !.state = "SUCCESS"]
    /\ UNCHANGED <<media, result, opinion, verdict, first, files>>

NextTask == TaskStart \/ TaskForensics \/ TaskOpinion \/ TaskFuse \/ TaskReport \/ TaskReturn

\* a worker that has taken the task runs it to its end (every step of the
\* task moves pc)
SpecTask == InitTask /\ [][NextTask]_vars /\ WF_pc(NextTask)

----------------------------------------------------------------------------
(* input_validation.sanitize_filename.  A file name is a sequence of       *)
(* one-character strings.                                                  *)

\* the longest file name of the model
MaxFilenameLen == 5

\* the length sanitize_filename cuts a name to: the 255 of the code, scaled
\* to the file names of the model
FilenameLimit == 4

\* \w of the pattern, for the characters of the model
WordChars == {"a", "b", "_", "1"}

\* a character the pattern [^\w\s\-\.] leaves in place
KeptChar(c) == c \in WordChars \cup {" ", "-", "."}

\* s.split(sep)[-1]
LastComponent(s, sep) ==
    LET at == {i \in 1..Len(s) : s[i] = sep}
        last == IF at = {} THEN 0 ELSE CHOOSE i \in at : \A j \in at : j <= i
    IN SubSeq(s, last + 1, Len(s))

unnamed_file == <<"u","n","n","a","m","e","d","_","f","i","l","e">>

\* sanitize_filename
sanitize_filename(filename) ==
    LET component == LastComponent(LastComponent(filename, "/"), "\\")
        cleaned == SelectSeq(component, KeptChar)
        limited == IF Len(cleaned) > FilenameLimit
                   THEN SubSeq(cleaned, 1, FilenameLimit) ELSE cleaned
    IN IF limited = <<>> THEN unnamed_file ELSE limited

\* the characters of the file names of the model
FilenameChars == {"a", "b", ".", "/", "\\", "<"}

Filenames == UNION { [1..n -> FilenameChars] : n \in 0..MaxFilenameLen }

InitName ==
    /\ pc = "start"
    /\ media \in { [kind |-> "filename", name |-> f] : f \in Filenames }
    /\ result = NONE
    /\ opinion = NONE
    /\ verdict = NONE
    /\ first = <<>>
    /\ task = NONE
    /\ files = {}

\* filename = sanitize_filename(file.filename)
SanitizeFilename ==
    /\ pc = "start"
    /\ media.kind = "filename"
    /\ result' = sanitize_filename(media.name)
    /\ pc' = "sanitized"
    /\ UNCHANGED <<media, opinion, verdict, first, task, files>>

NextName == SanitizeFilename

SpecName == InitName /\ [][NextName]_vars

----------------------------------------------------------------------------
(* AdvancedForensicAnalyzer: error level analysis and the indicators.      *)
(* Error statistics are in thousandths; rounded results in hundredths.     *)

\* high_error_percentage > 15 and std_error > 20
ElaHighAnyOf(high_error_percentage, std_error) ==
    high_error_percentage > 15000 \/ std_error > 20000

ElaHigh(high_error_percentage, std_error) ==
    high_error_percentage > 15000 /\ std_error > 20000

\* high_error_percentage > 10 or std_error > 15
ElaMedium(high_error_percentage, std_error) ==
    high_error_percentage > 10000 \/ std_error > 15000

\* high_error_percentage > 5
ElaLow(high_error_percentage) == high_error_percentage > 5000

ELA_STRONG == "Strong indication of manipulation - significant regions show inconsistent compression"
ELA_MODERATE == "Moderate indication of manipulation - some regions show unusual error levels"
ELA_WEAK == "Weak indication of manipulation - minor inconsistencies detected"
ELA_CONSISTENT == "Error levels appear consistent - no clear manipulation"

\* _interpret_ela
interpret_ela(mean_error, std_error, high_error_pct) ==
    IF high_error_pct > 15000 /\ std_error > 20000 THEN ELA_STRONG
    ELSE IF high_error_pct > 10000 THEN ELA_MODERATE
    ELSE IF high_error_pct > 5000 THEN ELA_WEAK
    ELSE ELA_CONSISTENT

\* error_level_analysis, from the statistics of the difference map
error_level_analysis(image) ==
    \* Image.open, save or the array conversion raised
    IF ~image.decodable THEN
        [error |-> "cannot identify image file",
         manipulation_suspected |-> FALSE, confidence |-> "none"]
    ELSE
    LET mean_error == image.mean_error
        std_error == image.std_error
        high_error_percentage == image.high_error_percentage
    IN
        [mean_error_level |-> RoundDiv(mean_error, 1000, 100),
         max_error_level |-> RoundDiv(image.max_error, 1000, 100),
         std_deviation |-> RoundDiv(std_error, 1000, 100),
         high_error_percentage |-> RoundDiv(high_error_percentage, 1000, 100),
         manipulation_suspected |->
            \/ ElaHigh(high_error_percentage, std_error)
            \/ ElaMedium(high_error_percentage, std_error)
            \/ ElaLow(high_error_percentage),
         confidence |->
            IF ElaHigh(high_error_percentage, std_error) THEN "high"
            ELSE IF ElaMedium(high_error_percentage, std_error) THEN "medium"
            ELSE "low",
         interpretation |-> interpret_ela(mean_error, std_error, high_error_percentage)]

\* the share of one analysis in the composite score, in hundredths
Contribution(analysis, flag, high, medium, low) ==
    IF Get(analysis, flag, FALSE)
    THEN IF Get(analysis, "confidence", PyNone) = "high" THEN high
         ELSE IF Get(analysis, "confidence", PyNone) = "medium" THEN medium
         ELSE low
    ELSE 0

\* _calculate_composite_score, in hundredths
calculate_composite_score(results) ==
    Min(Contribution(results.ela_analysis, "manipulation_suspected", 30, 20, 10)
        + Contribution(results.noise_analysis, "ai_generation_suspected", 30, 20, 10)
        + Contribution(results.jpeg_ghost, "editing_detected", 20, 15, 10)
        + Contribution(results.copy_move, "copy_move_suspected", 20, 15, 10),
        100)

\* one entry of the indicators: "[TAG] " and the interpretation
Indicator(tag, analysis, flag, fallback) ==
    Opt(Get(analysis, flag, FALSE),
        <<tag, Get(analysis, "interpretation", fallback)>>)

\* _extract_manipulation_indicators
extract_manipulation_indicators(results) ==
    LET indicators ==
            Indicator("[ELA]", results.ela_analysis, "manipulation_suspected",
                      "Manipulation detected")
            \o Indicator("[NOISE]", results.noise_analysis, "ai_generation_suspected",
                         "Suspicious noise pattern")
            \o Indicator("[JPEG]", results.jpeg_ghost, "editing_detected",
                         "Previous compression detected")
            \o Indicator("[COPY-MOVE]", results.copy_move, "copy_move_suspected",
                         "Cloned regions detected")
    IN IF indicators = <<>>
       THEN << <<"", "No advanced manipulation indicators detected">> >>
       ELSE indicators

\* analyze_advanced_forensics, the three other analyses having returned
\* image.noise, image.ghost and image.copy_move
analyze_advanced_forensics(image) ==
    LET results == [ela_analysis |-> error_level_analysis(image),
                    noise_analysis |-> image.noise,
                    jpeg_ghost |-> image.ghost,
                    copy_move |-> image.copy_move]
    IN [ela_analysis |-> results.ela_analysis,
        noise_analysis |-> results.noise_analysis,
        jpeg_ghost |-> results.jpeg_ghost,
        copy_move |-> results.copy_move,
        composite_score |-> calculate_composite_score(results),
        manipulation_indicators |-> extract_manipulation_indicators(results)]

\* high_error_percentage and std_error around the breakpoints, in thousandths
ErrorPercentages == {0, 5000, 5001, 10000, 10001, 15000, 15001}
ErrorDeviations == {0, 15000, 15001, 20000, 20001}

\* what noise_pattern_analysis returns: natural noise, or a suspicion
NoiseResults ==
    { [ai_generation_suspected |-> FALSE, confidence |-> "low",
       interpretation |-> "Noise pattern appears natural"],
      [ai_generation_suspected |-> TRUE, confidence |-> "high",
       interpretation |-> "Extremely low and uniform noise (typical of AI generation)"] }

\* what jpeg_ghost_detection returns: no ghost, or one
GhostResults ==
    { jpeg_ghost_detection([kind |-> "ghost", decode_ok |-> TRUE, mse |-> m]) :
        m \in { <<60, 60, 60, 60, 60, 60>>, <<60, 40, 60, 60, 60, 60>> } }

\* what copy_move_detection returns: too few features, or a duplicated region
CopyMoveResults ==
    { [keypoints_found |-> 0, similar_regions |-> 0, copy_move_suspected |-> FALSE,
       confidence |-> "none", interpretation |-> "Insufficient features for analysis"],
      [keypoints_found |-> 10, feature_matches |-> 5, similar_regions |-> 1,
       copy_move_suspected |-> TRUE, confidence |-> "medium",
       interpretation |-> "Large duplicated region detected"] }

ElaInputs ==
    { [kind |-> "ela", decodable |-> TRUE, mean_error |-> 1234, max_error |-> 255000,
       std_error |-> sd, high_error_percentage |-> pct,
       noise |-> n, ghost |-> g, copy_move |-> cm] :
        sd \in ErrorDeviations, pct \in ErrorPercentages,
        n \in NoiseResults, g \in GhostResults, cm \in CopyMoveResults }
    \cup { [kind |-> "ela", decodable |-> FALSE, mean_error |-> 0, max_error |-> 0,
            std_error |-> 0, high_error_percentage |-> 0,
            noise |-> [error |-> "cannot identify image file",
                       ai_generation_suspected |-> FALSE, confidence |-> "none"],
            ghost |-> jpeg_ghost_detection([kind |-> "ghost", decode_ok |-> FALSE,
                                            mse |-> <<>>]),
            copy_move |-> [error |-> "cannot identify image file",
                           copy_move_suspected |-> FALSE, confidence |-> "none"]] }

InitEla ==
    /\ pc = "start"
    /\ media \in ElaInputs
    /\ result = NONE
    /\ opinion = NONE
    /\ verdict = NONE
    /\ first = <<>>
    /\ task = NONE
    /\ files = {}

\* results = analyzer.analyze_advanced_forensics(image_bytes)
AnalyzeAdvancedForensics ==
    /\ pc = "start"
    /\ media.kind = "ela"
    /\ result' = analyze_advanced_forensics(media)
    /\ pc' = "analyzed"
    /\ UNCHANGED <<media, opinion, verdict, first, task, files>>

NextEla == AnalyzeAdvancedForensics

SpecEla == InitEla /\ [][NextEla]_vars

----------------------------------------------------------------------------
(* AdvancedForensicAnalyzer: copy-move detection.                          *)
(* Keypoints are <<x, y>>; those of the model lie on one row, so that      *)
(* every distance is an integer.                                           *)

\* np.sqrt((p[0] - q[0])**2 + (p[1] - q[1])**2)
Distance(p, q) ==
    ISqrt((p[1] - q[1]) * (p[1] - q[1]) + (p[2] - q[2]) * (p[2] - q[2]))

\* distance > 30: the match is spatially separated
SeparatedFromThirty(distance) == distance >= 30

Separated(distance) == distance > 30

\* avg_dist < 50, for the mean of the distances from pt1 to the members
NearClusterNearest(pt1, cluster) ==
    \E k \in 1..Len(cluster) : Distance(pt1, cluster[k]) < 50

NearCluster(pt1, cluster) ==
    SumSeq([k \in 1..Len(cluster) |-> Distance(pt1, cluster[k])]) < 50 * Len(cluster)

\* len(c) >= 3
Significant(cluster) == Len(cluster) >= 3

\* the matches that are no self-matches and are spatially separated
ValidMatches(keypoints, matches) ==
    SelectSeq(matches,
              LAMBDA match : /\ match[1] # match[2]
                             /\ Separated(Distance(keypoints[match[1]],
                                                   keypoints[match[2]])))

\* the clusters after the matches from position k on joined, each the
\* first cluster it is near or a new one; a cluster is the list of its pt1
RECURSIVE GroupMatches(_, _, _, _)
GroupMatches(keypoints, valid_matches, k, clusters) ==
    IF k > Len(valid_matches) THEN clusters
    ELSE LET pt1 == keypoints[valid_matches[k][1]]
             near == {c \in 1..Len(clusters) : NearCluster(pt1, clusters[c])}
         IN IF near = {}
            THEN GroupMatches(keypoints, valid_matches, k + 1,
                              Append(clusters, <<pt1>>))
            ELSE LET c == CHOOSE i \in near : \A j \in near : i <= j
                 IN GroupMatches(keypoints, valid_matches, k + 1,
                                 [clusters EXCEPT ![c] = Append(@, pt1)])

\* copy_move_detection, from the keypoints ORB found and the matches
\* match_descriptors returned
copy_move_detection(image) ==
    \* Image.open or the feature extraction raised
    IF ~image.decodable THEN
        [error |-> "cannot identify image file",
         copy_move_suspected |-> FALSE, confidence |-> "none"]
    \* descriptors is None or len(descriptors) < 10
    ELSE IF Len(image.keypoints) < 10 THEN
        [keypoints_found |-> 0, similar_regions |-> 0,
         copy_move_suspected |-> FALSE, confidence |-> "none",
         interpretation |-> "Insufficient features for analysis"]
    ELSE
    LET keypoints == image.keypoints
        valid_matches == ValidMatches(keypoints, image.matches)
        clusters == GroupMatches(keypoints, valid_matches, 1, <<>>)
        significant_clusters == SelectSeq(clusters, Significant)
        base == [keypoints_found |-> Len(keypoints),
                 feature_matches |-> Len(valid_matches),
                 similar_regions |-> Len(significant_clusters),
                 copy_move_suspected |-> FALSE, confidence |-> "low",
                 interpretation |-> "No clear copy-move patterns detected"]
    IN
    IF Len(significant_clusters) >= 2 THEN
        [base EXCEPT !.copy_move_suspected = TRUE, !.confidence = "high",
            !.interpretation = "Multiple similar regions detected ({n} clusters)"]
    ELSE IF Len(significant_clusters) = 1 /\ Len(significant_clusters[1]) >= 5 THEN
        [base EXCEPT !.copy_move_suspected = TRUE, !.confidence = "medium",
            !.interpretation = "Large duplicated region detected"]
    ELSE IF Len(valid_matches) > 20 THEN
        [base EXCEPT !.copy_move_suspected = TRUE, !.confidence = "low",
            !.interpretation = "Suspicious number of feature matches"]
    ELSE base

\* n matches whose first points are `step` apart from `from` on, each
\* second point `gap` away from its first
MatchedPairs(from, step, gap, n) ==
    [k \in 1..n |-> << <<from + step * (k - 1), 0>>,
                       <<from + step * (k - 1) + gap, 0>> >>]

\* The images: `a` matches whose first points coincide, a region of `b`
\* matches whose first points lie 40, 20 or 60 apart, `c` scattered
\* matches, with or without a match between points 30 apart and a
\* keypoint matched with itself; the keypoints are the points of the
\* matches, in order, and the regions come in either order.
MatchLayouts ==
    { (IF l.swap THEN l.second \o l.first ELSE l.first \o l.second)
        \o MatchedPairs(5000, 100, 31, l.c)
        \o (IF l.close THEN MatchedPairs(9000, 0, 30, 1) ELSE <<>>) :
        l \in [first : {MatchedPairs(0, 0, 500, a) : a \in 0..5},
               second : {MatchedPairs(1000, step, 500, b) :
                           step \in {20, 40, 60}, b \in {0, 3}},
               c : {0, 1, 15, 16, 18, 21},
               close : BOOLEAN, swap : BOOLEAN] }

CopyMoveInputs ==
    { [kind |-> "copy_move", decodable |-> TRUE,
       keypoints |-> [k \in 1..(2 * Len(pairs)) |-> pairs[(k + 1) \div 2][2 - (k % 2)]]
                     \o (IF self THEN << <<9500, 0>> >> ELSE <<>>),
       matches |-> [k \in 1..Len(pairs) |-> <<2 * k - 1, 2 * k>>]
                   \o (IF self THEN << <<2 * Len(pairs) + 1, 2 * Len(pairs) + 1>> >>
                       ELSE <<>>)] :
        pairs \in MatchLayouts, self \in BOOLEAN }
    \cup { [kind |-> "copy_move", decodable |-> FALSE,
            keypoints |-> <<>>, matches |-> <<>>] }

InitCopyMove ==
    /\ pc = "start"
    /\ media \in CopyMoveInputs
    /\ result = NONE
    /\ opinion = NONE
    /\ verdict = NONE
    /\ first = <<>>
    /\ task = NONE
    /\ files = {}

\* results['copy_move'] = self.copy_move_detection(image_bytes)
CopyMoveDetection ==
    /\ pc = "start"
    /\ media.kind = "copy_move"
    /\ result' = copy_move_detection(media)
    /\ pc' = "analyzed"
    /\ UNCHANGED <<media, opinion, verdict, first, task, files>>

NextCopyMove == CopyMoveDetection

SpecCopyMove == InitCopyMove /\ [][NextCopyMove]_vars

----------------------------------------------------------------------------
(* The temporary files of analyze_video and analyze_audio, step by step.   *)
(* `files` is the set of temporary files that exist; `result` holds the    *)
(* locals of the call until it returns.                                    *)

\* the path of the temporary media file and of the frame file of a timestamp
TmpPath(suffix) == <<"tmp", suffix>>
FramePath(i) == <<"tmp", ".jpg", i>>

\* the timestamps of _extract_key_frames, in tenths of a second
Timestamps(duration) ==
    IF duration > 0 THEN <<duration * 1, duration * 5, duration * 9>>
    ELSE <<0, 10, 20>>

\* max_frames
max_frames == 3

TempInputs ==
    { [kind |-> k, available |-> av, duration |-> d] :
        k \in {"video_file", "audio_file"}, av \in BOOLEAN, d \in {0, 10} }

Suffix(m) == IF m.kind = "video_file" THEN ".mp4" ELSE ".mp3"
MediaType(m) == IF m.kind = "video_file" THEN "video" ELSE "audio"

InitTemp ==
    /\ pc = "start"
    /\ media \in TempInputs
    /\ result = NONE
    /\ opinion = NONE
    /\ verdict = NONE
    /\ first = <<>>
    /\ task = NONE
    /\ files = {}

\* if not VIDEO_AVAILABLE / if not AUDIO_AVAILABLE: return
Unavailable ==
    /\ pc = "start"
    /\ media.kind \in {"video_file", "audio_file"}
    /\ ~media.available
    /\ pc' = "returned"
    /\ result' = FailureResult(MediaType(media), "analysis not available",
                               "forensics unavailable")
    /\ UNCHANGED <<media, opinion, verdict, first, task, files>>

\* the except clause of the outer try: the failure result is returned
Failed(m) ==
    FailureResult(MediaType(m), "error", "analysis failed - insufficient data")

\* with tempfile.NamedTemporaryFile(suffix=..., delete=False) as tmp: the
\* file is created, or its creation raises
CreateTemp ==
    /\ pc = "start"
    /\ media.kind \in {"video_file", "audio_file"}
    /\ media.available
    /\ \/ /\ files' = files \cup {TmpPath(Suffix(media))}
          /\ pc' = "write"
          /\ result' = [tmp_path |-> TmpPath(Suffix(media)), key_frames |-> <<>>,
                        i |-> 1, returns |-> NONE]
       \/ /\ pc' = "returned"
          /\ result' = Failed(media)
          /\ UNCHANGED files
    /\ UNCHANGED <<media, opinion, verdict, first, task>>

\* tmp.write(bytes); tmp_path = tmp.name: the bytes are written, or the
\* write raises (the inner try, and its finally, is not entered yet)
WriteTemp ==
    /\ pc = "write"
    /\ \/ /\ pc' = IF media.kind = "video_file" THEN "probe" ELSE "load"
          /\ UNCHANGED result
       \/ /\ pc' = "returned"
          /\ result' = Failed(media)
    /\ UNCHANGED <<media, opinion, verdict, first, task, files>>

\* probe = ffmpeg.probe(tmp_path) and the signals read from it, or an
\* exception of either
Probe ==
    /\ pc = "probe"
    /\ \/ /\ pc' = "frame_create"
          /\ UNCHANGED result
       \/ /\ pc' = "finally"
          /\ result' = [result EXCEPT !.returns = Failed(media)]
    /\ UNCHANGED <<media, opinion, verdict, first, task, files>>

\* _extract_key_frames: with tempfile.NamedTemporaryFile(suffix='.jpg',
\* delete=False) as tmp_frame, for the next timestamp; a failure to create
\* the file ends the extraction
FrameCreate ==
    /\ pc = "frame_create"
    /\ \/ /\ result.i <= Min(max_frames, Len(Timestamps(media.duration)))
          /\ \/ /\ files' = files \cup {FramePath(result.i)}
                /\ pc' = "frame_run"
             \/ /\ pc' = "indicators"
                /\ UNCHANGED files
       \/ /\ result.i > Min(max_frames, Len(Timestamps(media.duration)))
          /\ pc' = "indicators"
          /\ UNCHANGED files
    /\ UNCHANGED <<media, result, opinion, verdict, first, task>>

\* subprocess.run([... frame_path], check=True, timeout=10) and the read of
\* the frame: the frame is appended, or ffmpeg fails or times out
FrameRun ==
    /\ pc = "frame_run"
    /\ \E outcome \in {"read", "CalledProcessError", "TimeoutExpired"} :
          result' = IF outcome = "read"
                    THEN [result EXCEPT !.key_frames =
                            Append(@, Timestamps(media.duration)[result.i])]
                    ELSE result
    /\ pc' = "frame_unlink"
    /\ UNCHANGED <<media, opinion, verdict, first, task, files>>

\* finally: if os.path.exists(frame_path): os.unlink(frame_path)
FrameUnlink ==
    /\ pc = "frame_unlink"
    /\ files' = files \ {FramePath(result.i)}
    /\ result' = [result EXCEPT !.i = @ + 1]
    /\ pc' = "frame_create"
    /\ UNCHANGED <<media, opinion, verdict, first, task>>

\* signals['forensic_indicators'] = self._extract_video_forensic_indicators(signals)
VideoIndicators ==
    /\ pc = "indicators"
    /\ result' = [result EXCEPT !.returns =
                    [media_type |-> "video", key_frames |-> result.key_frames,
                     forensic_indicators |-> extract_video_forensic_indicators(result)]]
    /\ pc' = "finally"
    /\ UNCHANGED <<media, opinion, verdict, first, task, files>>

\* MutagenFile(tmp_path), librosa.load(tmp_path), the properties and the
\* indicators, or an exception of the first two
LoadAudio ==
    /\ pc = "load"
    /\ \/ result' = [result EXCEPT !.returns =
                        [media_type |-> "audio",
                         forensic_indicators |->
                            PyDict(extract_audio_forensic_indicators(EmptyDict, EmptyDict))]]
       \/ result' = [result EXCEPT !.returns = Failed(media)]
    /\ pc' = "finally"
    /\ UNCHANGED <<media, opinion, verdict, first, task, files>>

\* finally: os.unlink(tmp_path), then the return
UnlinkTemp ==
    /\ pc = "finally"
    /\ files' = files \ {result.tmp_path}
    /\ result' = result.returns
    /\ pc' = "returned"
    /\ UNCHANGED <<media, opinion, verdict, first, task>>

NextTemp ==
    \/ Unavailable \/ CreateTemp \/ WriteTemp \/ Probe \/ FrameCreate
    \/ FrameRun \/ FrameUnlink \/ VideoIndicators \/ LoadAudio \/ UnlinkTemp

SpecTemp == InitTemp /\ [][NextTemp]_vars

----------------------------------------------------------------------------
(* Properties.                                                             *)

\* what fuse_evidence reads of a forensic result
BucketOf(res) == Get(res, "forensic_indicators", PyDict(EmptyDict))
HasBucket(res) == BucketOf(res).t = "dict"
Count(res, key) == Len(Get(BucketOf(res).v, key, <<>>))

\* what fuse_evidence reads of a well-typed opinion
OpinionClassification(op) ==
    Get(Get(op, "origin", PyDict(EmptyDict)).v, "classification", PyStr(UNCLEAR_MIXED)).v
OpinionConfidence(op) ==
    Get(Get(op, "origin", PyDict(EmptyDict)).v, "confidence", PyStr("low")).v

\* C1: a forensic result with three or more AI signals and no human signal
\* is fused to "Likely AI-Generated" with confidence "high", whatever the
\* classification and confidence of the opinion (an opinion whose fields,
\* where present, have the types of the data model).
C1_Rule1Dominates ==
    (/\ pc = "fused"
     /\ HasBucket(result)
     /\ Count(result, "ai_signals") >= 3
     /\ Count(result, "human_signals") = 0
     /\ WellTyped(opinion))
    => /\ ~verdict.raised
       /\ verdict.classification = "Likely AI-Generated"
       /\ verdict.confidence = "high"

\* three AI signals fused against an opinion of "Likely Original", high
C1_Witness ==
    /\ pc = "fused"
    /\ HasBucket(result)
    /\ Count(result, "ai_signals") = 3
    /\ Count(result, "human_signals") = 0
    /\ Count(result, "manipulation_signals") > 0
    /\ WellTyped(opinion)
    /\ AiAgreesOriginal(OpinionClassification(opinion))
    /\ OpinionConfidence(opinion) = "high"
    /\ verdict.classification = "Likely AI-Generated"

\* C2: fuse_evidence never raises, whatever its two inputs hold (empty
\* dicts, missing keys, None for forensic_indicators or origin), and with
\* no forensic evidence and no usable opinion it returns "Inconclusive",
\* "low".
C2_FuseNeverRaises ==
    pc = "fused" =>
        /\ ~verdict.raised
        /\ ((/\ HasBucket(result) => BucketOf(result).v = EmptyDict
             /\ Get(opinion, "origin", PyDict(EmptyDict)) \in {PyNone, PyDict(EmptyDict)})
            => /\ verdict.classification = "Inconclusive"
               /\ verdict.confidence = "low")

\* the keys of an evidence bucket
BucketKeys ==
    {"human_signals", "ai_signals", "manipulation_signals", "inconclusive_signals"}

\* C3: whatever analyze_image, analyze_video or analyze_audio returns has a
\* forensic_indicators dict with the four signal lists, and when the human
\* and AI lists are both empty the inconclusive list is not.
C3_BucketCompleteness ==
    pc \in {"analyzed", "fused"} =>
        /\ "forensic_indicators" \in DOMAIN result
        /\ result.forensic_indicators.t = "dict"
        /\ DOMAIN result.forensic_indicators.v = BucketKeys
        /\ (Count(result, "human_signals") = 0 /\ Count(result, "ai_signals") = 0
            => Count(result, "inconclusive_signals") > 0)

\* C4: analyze_image on a corrupt or truncated image returns a result of
\* media type "image" whose inconclusive_signals is not empty and whose
\* human, AI and manipulation signals are empty.
C4_GracefulDegradation ==
    (/\ pc \in {"analyzed", "fused"}
     /\ media.kind = "image"
     /\ (~media.identified \/ ~media.decodable))
    => /\ result.media_type = "image"
       /\ HasBucket(result)
       /\ Count(result, "inconclusive_signals") > 0
       /\ Count(result, "human_signals") = 0
       /\ Count(result, "ai_signals") = 0
       /\ Count(result, "manipulation_signals") = 0

\* C5: two analyses of the same image bytes, the statistical pass and its
\* pixel sample included, give the same forensic_indicators, and fusing
\* each with the same opinion gives the same verdict.
C5_Determinism ==
    (pc = "fused" /\ first # <<>>)
    => /\ result.forensic_indicators = first[1].forensic_indicators
       /\ verdict = first[1].verdict

\* the opinion names an original, with confidence high or medium
OpinionBacksOriginal(op) ==
    /\ AiAgreesOriginal(OpinionClassification(op))
    /\ OpinionConfidence(op) \in {"high", "medium"}

\* the opinion names an AI generation, with confidence high or medium
OpinionBacksAiGenerated(op) ==
    /\ AiAgreesAiGenerated(OpinionClassification(op))
    /\ OpinionConfidence(op) \in {"high", "medium"}

\* the confidence of the hybrid verdict for a number of manipulation signals
ExpectedHybridConfidence(n) == IF n >= 3 THEN "high" ELSE "medium"

\* C6 as stated: with at least one human signal, no AI signal and two or
\* more manipulation signals the verdict is "Hybrid / Manipulated", high
\* for three or more manipulation signals and medium for two, for every
\* opinion.
C6_HybridScenario ==
    (/\ pc = "fused"
     /\ HasBucket(result)
     /\ Count(result, "human_signals") >= 1
     /\ Count(result, "ai_signals") = 0
     /\ Count(result, "manipulation_signals") >= 2
     /\ WellTyped(opinion))
    => /\ ~verdict.raised
       /\ verdict.classification = "Hybrid / Manipulated"
       /\ verdict.confidence = ExpectedHybridConfidence(Count(result, "manipulation_signals"))

\* C6: with no AI signal and two or more manipulation signals, exactly one
\* human signal and an opinion that does not back an original give "Hybrid
\* / Manipulated" (high for three or more manipulation signals, medium for
\* two); two or more human signals, or an opinion that backs an original,
\* give "Likely Original" instead.
C6_HybridAfterOriginal ==
    (/\ pc = "fused"
     /\ HasBucket(result)
     /\ Count(result, "human_signals") >= 1
     /\ Count(result, "ai_signals") = 0
     /\ Count(result, "manipulation_signals") >= 2
     /\ WellTyped(opinion))
    => /\ ~verdict.raised
       /\ IF Count(result, "human_signals") = 1 /\ ~OpinionBacksOriginal(opinion)
          THEN /\ verdict.classification = "Hybrid / Manipulated"
               /\ verdict.confidence =
                     ExpectedHybridConfidence(Count(result, "manipulation_signals"))
          ELSE verdict.classification = "Likely Original"

\* one human signal and three manipulation signals, fused against an
\* opinion of low confidence
C6_Witness ==
    /\ pc = "fused"
    /\ HasBucket(result)
    /\ Count(result, "human_signals") = 1
    /\ Count(result, "ai_signals") = 0
    /\ Count(result, "manipulation_signals") = 3
    /\ WellTyped(opinion)
    /\ OpinionConfidence(opinion) = "low"
    /\ verdict.classification = "Hybrid / Manipulated"
    /\ verdict.confidence = "high"

\* the opinions whose fields have the types of the data model
WellTypedOpinions == { op \in Opinions : WellTyped(op) }

\* an image whose EXIF carries Make, Model, DateTimeOriginal and GPS
HasCameraExif(m) ==
    /\ m.kind = "image"
    /\ m.identified
    /\ ~m.exif_raises
    /\ {"Image Make", "Image Model", "EXIF DateTimeOriginal",
        "GPS GPSLatitude", "GPS GPSLongitude"} \subseteq DOMAIN m.exif

\* both sides multiples of 512, or a square with sides multiple of 64
AiTypicalDimensions(width, height) ==
    \/ width % 512 = 0 /\ height % 512 = 0
    \/ width = height /\ width % 64 = 0

\* every well-typed opinion is fused with res to this verdict
FusedToForAll(res, classification, confidence) ==
    \A op \in WellTypedOpinions :
        LET fused == fuse_evidence(res, op)
        IN /\ ~fused.raised
           /\ fused.classification = classification
           /\ fused.confidence = confidence

PlainPng512(m) ==
    /\ m.kind = "image"
    /\ m.identified
    /\ m.format = "PNG"
    /\ m.width = 512 /\ m.height = 512
    /\ (m.exif_raises \/ DOMAIN m.exif = {})

\* C8 as stated: every 512x512 PNG without EXIF has at least three AI
\* signals and no human signal, and is fused to "Likely AI-Generated",
\* high, for every opinion.
C8_AiScenario ==
    (pc = "analyzed" /\ PlainPng512(media))
    => /\ Count(result, "ai_signals") >= 3
       /\ Count(result, "human_signals") = 0
       /\ FusedToForAll(result, "Likely AI-Generated", "high")

\* C8: a 512x512 PNG without EXIF has no human signal and the two AI
\* signals of its missing EXIF and its dimensions; when the channel
\* statistics report an anomaly it has three and is fused to "Likely
\* AI-Generated", high, for every opinion.
C8_AiScenarioWithAnomaly ==
    (pc = "analyzed" /\ PlainPng512(media))
    => /\ Count(result, "human_signals") = 0
       /\ IF Get(result.statistics, "suspicious_patterns", <<>>) # <<>>
          THEN /\ Count(result, "ai_signals") >= 3
               /\ FusedToForAll(result, "Likely AI-Generated", "high")
          ELSE Count(result, "ai_signals") = 2

\* a uniform 512x512 PNG without EXIF fused against a neutral opinion
C8_Witness ==
    /\ pc = "fused"
    /\ PlainPng512(media)
    /\ Count(result, "ai_signals") >= 3
    /\ ~AiAgreesAiGenerated(OpinionClassification(opinion))
    /\ verdict.classification = "Likely AI-Generated"
    /\ verdict.confidence = "high"

\* one of the rules ahead of the insufficient-evidence rule applies to h
\* human, a AI and m manipulation signals and the opinion op
EarlierRuleMatches(h, a, m, op) ==
    \/ a >= 3 /\ h = 0
    \/ a >= 2 /\ h = 0
    \/ a >= 1 /\ h = 0 /\ OpinionBacksAiGenerated(op)
    \/ h >= 3 /\ a = 0
    \/ h >= 2 /\ a = 0
    \/ h >= 1 /\ a = 0 /\ OpinionBacksOriginal(op)
    \/ h >= 1 /\ m >= 2
    \/ h >= 1 /\ m >= 1
    \/ h >= 1 /\ a >= 1
    \/ h + a + m = 1 /\ a = 1 /\ OpinionBacksAiGenerated(op)
    \/ h + a + m = 1 /\ h = 1 /\ OpinionBacksOriginal(op)

\* C9: when there is no human, AI or manipulation signal, or there are
\* inconclusive signals and no earlier rule matched, the confidence is
\* "low" and the classification is "Unclear / Mixed Signals" if the opinion
\* backs either origin with confidence high or medium, and "Inconclusive"
\* otherwise; no signal at all and an opinion of confidence "low" give
\* "Inconclusive", "low".
C9_InsufficientEvidence ==
    (/\ pc = "fused"
     /\ HasBucket(result)
     /\ WellTyped(opinion))
    => LET h == Count(result, "human_signals")
           a == Count(result, "ai_signals")
           m == Count(result, "manipulation_signals")
           i == Count(result, "inconclusive_signals")
       IN /\ (h + a + m = 0 \/ (i > 0 /\ ~EarlierRuleMatches(h, a, m, opinion)))
             => /\ ~verdict.raised
                /\ verdict.confidence = "low"
                /\ verdict.classification =
                      IF OpinionBacksAiGenerated(opinion) \/ OpinionBacksOriginal(opinion)
                      THEN "Unclear / Mixed Signals" ELSE "Inconclusive"
          /\ (h + a + m + i = 0 /\ OpinionConfidence(opinion) = "low")
             => /\ ~verdict.raised
                /\ verdict.classification = "Inconclusive"
                /\ verdict.confidence = "low"

\* an inconclusive signal beside one AI signal and manipulation signals,
\* fused against an opinion that backs an original
C9_Witness ==
    /\ pc = "fused"
    /\ HasBucket(result)
    /\ WellTyped(opinion)
    /\ Count(result, "inconclusive_signals") > 0
    /\ Count(result, "human_signals") = 0
    /\ Count(result, "ai_signals") = 1
    /\ Count(result, "manipulation_signals") >= 2
    /\ OpinionBacksOriginal(opinion)
    /\ verdict.classification = "Unclear / Mixed Signals"
    /\ verdict.confidence = "low"

\* the qualities of the ladder, its two ends aside, at which the error of
\* the re-compression is below the error at both neighbouring qualities
InteriorMinima(mse) ==
    { ghost_qualities[i] : i \in { j \in 2..(Len(mse) - 1) :
                                     mse[j] < mse[j - 1] /\ mse[j] < mse[j + 1] } }

\* the lowest error of the ladder is below 50 and is met below quality 95
LowestErrorBelow95(mse) ==
    \E i \in 1..Len(mse) :
        /\ \A j \in 1..Len(mse) : mse[i] <= mse[j]
        /\ ghost_qualities[i] < 95
        /\ mse[i] < 50

\* C10: jpeg_ghost_detection reports as suspected quality levels the
\* interior local minima of the error over the qualities 70 to 95; two of
\* them give editing_detected with confidence "high", one gives "medium",
\* none gives "low" when the lowest error is below 50 at a quality below
\* 95, and editing_detected is false otherwise.
C10_GhostClassification ==
    (pc = "analyzed" /\ media.kind = "ghost" /\ media.decode_ok)
    => LET minima == InteriorMinima(media.mse)
           levels == result.suspected_quality_levels
       IN /\ { levels[k] : k \in 1..Len(levels) } = minima
          /\ Len(levels) = Cardinality(minima)
          /\ result.minima_detected = Cardinality(minima)
          /\ Cardinality(minima) \in {0, 1, 2}
          /\ Cardinality(minima) = 2
             => result.editing_detected /\ result.confidence = "high"
          /\ Cardinality(minima) = 1
             => result.editing_detected /\ result.confidence = "medium"
          /\ (Cardinality(minima) = 0 /\ LowestErrorBelow95(media.mse))
             => result.editing_detected /\ result.confidence = "low"
          /\ (Cardinality(minima) = 0 /\ ~LowestErrorBelow95(media.mse))
             => ~result.editing_detected

\* two interior minima: the error dips at quality 75 and at quality 90
C10_Witness ==
    /\ pc = "analyzed"
    /\ media.kind = "ghost"
    /\ media.decode_ok
    /\ media.mse[2] < media.mse[1] /\ media.mse[2] < media.mse[3]
    /\ media.mse[5] < media.mse[4] /\ media.mse[5] < media.mse[6]
    /\ result.suspected_quality_levels = <<75, 90>>
    /\ result.editing_detected
    /\ result.confidence = "high"

\* C11: the indicators of every verdict fuse_evidence returns are not
\* empty, for every forensic bucket (an empty or failure bucket included)
\* and every opinion (one without ai_signals included).
C11_IndicatorsPopulated ==
    (pc = "fused" /\ ~verdict.raised) => verdict.indicators # <<>>

\* C12: a verdict of "Likely AI-Generated" rests on at least one AI signal
\* of the bucket, "Likely Original" on at least one human signal, and
\* "Hybrid / Manipulated" on at least one human and one manipulation
\* signal.
C12_NoUnsupportedClassification ==
    (pc = "fused" /\ ~verdict.raised)
    => /\ verdict.classification = "Likely AI-Generated"
          => Count(result, "ai_signals") >= 1
       /\ verdict.classification = "Likely Original"
          => Count(result, "human_signals") >= 1
       /\ verdict.classification = "Hybrid / Manipulated"
          => /\ Count(result, "human_signals") >= 1
             /\ Count(result, "manipulation_signals") >= 1

\* each of the three classifications returned on the least evidence
C12_Witness ==
    /\ pc = "fused"
    /\ ~verdict.raised
    /\ \/ /\ verdict.classification = "Likely AI-Generated"
          /\ Count(result, "ai_signals") = 1
       \/ /\ verdict.classification = "Likely Original"
          /\ Count(result, "human_signals") = 1
       \/ /\ verdict.classification = "Hybrid / Manipulated"
          /\ Count(result, "human_signals") = 1
          /\ Count(result, "manipulation_signals") = 1
    /\ Count(result, "inconclusive_signals") > 0

\* the classifications and the confidences of a verdict
Classifications ==
    {"Likely AI-Generated", "Likely Original", "Hybrid / Manipulated",
     "Unclear / Mixed Signals", "Inconclusive"}
Confidences == {"low", "medium", "high"}

\* C13: for every combination of signal counts and every well-formed
\* opinion fuse_evidence returns a verdict with one of the five
\* classifications, one of the three confidences and a reason that is not
\* empty; an input that none of the rules 1 to 11 matches gets
\* "Inconclusive", "low" and the reason "Evidence pattern does not match
\* classification rules".
C13_FusionTotal ==
    (pc = "fused" /\ HasBucket(result) /\ WellTyped(opinion))
    => LET h == Count(result, "human_signals")
           a == Count(result, "ai_signals")
           m == Count(result, "manipulation_signals")
           i == Count(result, "inconclusive_signals")
       IN /\ ~verdict.raised
          /\ verdict.classification \in Classifications
          /\ verdict.confidence \in Confidences
          /\ Len(verdict.reason) >= 1
          /\ verdict.reason[1] # ""
          /\ (~EarlierRuleMatches(h, a, m, opinion) /\ ~(h + a + m < 1 \/ i > 0))
             => /\ verdict.classification = "Inconclusive"
                /\ verdict.confidence = "low"
                /\ verdict.reason =
                      <<"Evidence pattern does not match classification rules">>

\* manipulation signals alone, and nothing inconclusive: no rule matches
C13_Witness ==
    /\ pc = "fused"
    /\ HasBucket(result)
    /\ WellTyped(opinion)
    /\ Count(result, "human_signals") = 0
    /\ Count(result, "ai_signals") = 0
    /\ Count(result, "manipulation_signals") = 2
    /\ Count(result, "inconclusive_signals") = 0
    /\ verdict.classification = "Inconclusive"
    /\ verdict.reason = <<"Evidence pattern does not match classification rules">>

\* the opinion {classification: 'Unclear / Mixed Signals', confidence:
\* 'low', ai_signals: [], human_signals: []}
ExplicitDefaultOpinion ==
    [origin |-> PyDict([classification |->
                           PyStr(<<"U","n","c","l","e","a","r"," ","/"," ","M","i","x","e","d",
                                   " ","S","i","g","n","a","l","s">>),
                        confidence |-> PyStr("low")]),
     ai_signals |-> PyList(<<>>),
     human_signals |-> PyList(<<>>)]

\* the opinion has no origin or an origin without classification and
\* confidence, and no signal list
LacksAll(op) ==
    /\ "ai_signals" \notin DOMAIN op
    /\ "human_signals" \notin DOMAIN op
    /\ "origin" \in DOMAIN op => op.origin = PyDict(EmptyDict)

\* op with each missing field set to the value of ExplicitDefaultOpinion
WithDefaults(op) ==
    LET origin == Get(op, "origin", PyDict(EmptyDict)).v
        default == ExplicitDefaultOpinion.origin.v
    IN [origin |-> PyDict([classification |-> Get(origin, "classification", default.classification),
                           confidence |-> Get(origin, "confidence", default.confidence)]),
        ai_signals |-> Get(op, "ai_signals", ExplicitDefaultOpinion.ai_signals),
        human_signals |-> Get(op, "human_signals", ExplicitDefaultOpinion.human_signals)]

\* C14: for every forensic bucket, an opinion without origin (or with an
\* origin without classification and confidence) and without signal lists
\* is fused to the verdict of the explicit opinion "Unclear / Mixed
\* Signals", "low", no signals; more generally each missing field counts as
\* the field of that explicit opinion.
C14_AbsentOpinionIsDefault ==
    (pc = "fused" /\ HasBucket(result) /\ WellTyped(opinion))
    => /\ verdict = fuse_evidence(result, WithDefaults(opinion))
       /\ LacksAll(opinion) => verdict = fuse_evidence(result, ExplicitDefaultOpinion)

\* the empty opinion fused with one human and two AI signals
C14_Witness ==
    /\ pc = "fused"
    /\ HasBucket(result)
    /\ DOMAIN opinion = {}
    /\ Count(result, "human_signals") = 1
    /\ Count(result, "ai_signals") = 2
    /\ verdict.classification = "Unclear / Mixed Signals"
    /\ verdict.confidence = "low"

\* the classification of the opinion names an AI generation
SaysAiGenerated(op) ==
    OpinionClassification(op) \in {LIKELY_AI_GENERATED, AI_GENERATED_BARE}

\* the classification of the opinion names an original
SaysOriginal(op) ==
    OpinionClassification(op) \in {LIKELY_ORIGINAL, LIKELY_HUMAN_UPPER}

\* the confidence of the opinion is high or medium
IsStrong(op) == OpinionConfidence(op) \in {"high", "medium"}

\* C17 as stated: two human signals and no AI signal give "Likely
\* Original", with confidence "high" if the opinion agrees with original
\* and "medium" otherwise, whatever the other counts.
C17_Rule5 ==
    (/\ pc = "fused"
     /\ HasBucket(result)
     /\ WellTyped(opinion)
     /\ Count(result, "human_signals") = 2
     /\ Count(result, "ai_signals") = 0)
    => /\ ~verdict.raised
       /\ verdict.classification = "Likely Original"
       /\ verdict.confidence = IF SaysOriginal(opinion) THEN "high" ELSE "medium"

\* C17: two human signals and no AI signal give "Likely Original", with
\* confidence "high" if the opinion agrees with original and its own
\* confidence is high or medium, and "medium" otherwise, whatever the
\* manipulation and inconclusive counts.
C17_Rule5StrongAgreement ==
    (/\ pc = "fused"
     /\ HasBucket(result)
     /\ WellTyped(opinion)
     /\ Count(result, "human_signals") = 2
     /\ Count(result, "ai_signals") = 0)
    => /\ ~verdict.raised
       /\ verdict.classification = "Likely Original"
       /\ verdict.confidence =
             IF SaysOriginal(opinion) /\ IsStrong(opinion) THEN "high" ELSE "medium"

\* two human signals beside manipulation and inconclusive signals, fused
\* against an agreeing opinion of medium confidence
C17_Witness ==
    /\ pc = "fused"
    /\ HasBucket(result)
    /\ WellTyped(opinion)
    /\ Count(result, "human_signals") = 2
    /\ Count(result, "ai_signals") = 0
    /\ Count(result, "manipulation_signals") >= 2
    /\ Count(result, "inconclusive_signals") > 0
    /\ SaysOriginal(opinion)
    /\ OpinionConfidence(opinion) = "medium"
    /\ verdict.classification = "Likely Original"
    /\ verdict.confidence = "high"

\* one signal in all, and the opinion agrees with it, high or medium
SingleSignalAgreed(res, op) ==
    /\ Count(res, "human_signals") + Count(res, "ai_signals")
       + Count(res, "manipulation_signals") = 1
    /\ IsStrong(op)
    /\ \/ Count(res, "ai_signals") = 1 /\ SaysAiGenerated(op)
       \/ Count(res, "human_signals") = 1 /\ SaysOriginal(op)

\* the classification that matches the single signal
MatchingClassification(res) ==
    IF Count(res, "ai_signals") = 1 THEN "Likely AI-Generated" ELSE "Likely Original"

\* C18 as stated: a single signal in all and an opinion that agrees with
\* it with confidence medium or high give the matching classification with
\* confidence "low".
C18_Rule10 ==
    (pc = "fused" /\ HasBucket(result) /\ WellTyped(opinion)
     /\ SingleSignalAgreed(result, opinion))
    => /\ ~verdict.raised
       /\ verdict.classification = MatchingClassification(result)
       /\ verdict.confidence = "low"

\* C18: a single signal in all and an opinion that agrees with it with
\* confidence medium or high give the matching classification with
\* confidence "medium", by the rules 3 and 6 of the ladder; the verdicts of
\* rule 10 are never returned.
C18_SingleSignalIsMedium ==
    (pc = "fused" /\ HasBucket(result) /\ WellTyped(opinion))
    => /\ SingleSignalAgreed(result, opinion)
          => /\ ~verdict.raised
             /\ verdict.classification = MatchingClassification(result)
             /\ verdict.confidence = "medium"
       /\ verdict.reason \notin
            { <<"Limited forensic evidence supported by AI opinion suggests synthetic content">>,
              <<"Limited forensic evidence supported by AI opinion suggests original content">> }

\* one human signal alone, fused against "LIKELY HUMAN" of medium confidence
C18_Witness ==
    /\ pc = "fused"
    /\ HasBucket(result)
    /\ WellTyped(opinion)
    /\ SingleSignalAgreed(result, opinion)
    /\ Count(result, "human_signals") = 1
    /\ OpinionClassification(opinion) = LIKELY_HUMAN_UPPER
    /\ OpinionConfidence(opinion) = "medium"
    /\ verdict.classification = "Likely Original"
    /\ verdict.confidence = "medium"

WithPrefix(prefix, l) == [k \in 1..Len(l) |-> <<prefix, l[k]>>]

\* the first n elements of l, or all of l when it has fewer
FirstN(l, n) == [k \in 1..(IF Len(l) < n THEN Len(l) ELSE n) |-> l[k]]

\* C20: the indicators of a verdict are, in this order, the human signals
\* under "[FORENSIC] ", the AI signals under "[FORENSIC AI] ", the
\* manipulation signals under "[FORENSIC EDIT] " and the first three
\* ai_signals of the opinion under "[AI OPINION] ", whichever rule gave the
\* verdict; inconclusive signals and the human_signals of the opinion are
\* not among them.
C20_IndicatorComposition ==
    (pc = "fused" /\ HasBucket(result) /\ WellTyped(opinion))
    => LET bucket == BucketOf(result).v
           human == Get(bucket, "human_signals", <<>>)
           ai == Get(bucket, "ai_signals", <<>>)
           manipulation == Get(bucket, "manipulation_signals", <<>>)
           inconclusive == Get(bucket, "inconclusive_signals", <<>>)
           opinion_ai == Get(opinion, "ai_signals", PyList(<<>>)).v
           opinion_human == Get(opinion, "human_signals", PyList(<<>>)).v
           shown == verdict.indicators
       IN /\ ~verdict.raised
          /\ shown = WithPrefix("[FORENSIC] ", human)
                     \o WithPrefix("[FORENSIC AI] ", ai)
                     \o WithPrefix("[FORENSIC EDIT] ", manipulation)
                     \o WithPrefix("[AI OPINION] ", FirstN(opinion_ai, 3))
          /\ Len(shown) = Len(human) + Len(ai) + Len(manipulation)
                          + (IF Len(opinion_ai) < 3 THEN Len(opinion_ai) ELSE 3)
          /\ \A k \in 1..Len(shown) :
                /\ \A j \in 1..Len(inconclusive) : shown[k][2] # inconclusive[j]
                /\ \A j \in 1..Len(opinion_human) : shown[k][2] # opinion_human[j]

\* signals of every kind, and an opinion with more than three ai_signals
\* and a human signal
C20_Witness ==
    /\ pc = "fused"
    /\ HasBucket(result)
    /\ WellTyped(opinion)
    /\ Count(result, "human_signals") >= 1
    /\ Count(result, "ai_signals") >= 1
    /\ Count(result, "manipulation_signals") >= 1
    /\ Count(result, "inconclusive_signals") >= 1
    /\ Len(Get(opinion, "ai_signals", PyList(<<>>)).v) > 3
    /\ Len(Get(opinion, "human_signals", PyList(<<>>)).v) >= 1
    /\ Len(verdict.indicators) = Count(result, "human_signals") + Count(result, "ai_signals")
                                 + Count(result, "manipulation_signals") + 3

\* a video whose container ffmpeg probes, every field parsed
ProbedVideo(m) ==
    m.kind = "video" /\ m.available /\ m.probe_ok /\ m.duration >= 0

\* C15: for every video whose container is probed, the video task
\* (analyze_video, fuse_evidence, the report) eventually ends with a report
\* that holds a classification, a confidence and a reason, and never ends
\* in the state FAILURE.
C15_VideoTaskCompletes ==
    ProbedVideo(media)
    => /\ <>(/\ task.state = "SUCCESS"
             /\ task.report.origin_verdict.classification \in Classifications
             /\ task.report.origin_verdict.confidence \in Confidences
             /\ task.report.analysis_summary # <<>>)
       /\ [](task.state # "FAILURE")

\* a word character, a space or a hyphen
AllowedChar(c) == c \in WordChars \cup {" ", "-"}

\* the extension of a name: its last dot and what follows, or nothing
Extension(name) ==
    LET dots == {i \in 1..Len(name) : name[i] = "."}
    IN IF dots = {} THEN <<>>
       ELSE SubSeq(name, CHOOSE i \in dots : \A j \in dots : j <= i, Len(name))

\* C16: the result of sanitize_filename holds no '/', no '\' and no '..',
\* keeps in order every allowed character (word character, space, hyphen)
\* of the whole input, is no longer than the limit with the extension kept
\* when it is cut, and is 'unnamed_file' when nothing remains.
C16_SanitizeFilename ==
    pc = "sanitized"
    => LET name == media.name
           out == result
           allowed == SelectSeq(name, AllowedChar)
           wanted == SelectSeq(name, KeptChar)
       IN /\ \A k \in 1..Len(out) : out[k] \notin {"/", "\\"}
          /\ \A k \in 1..(Len(out) - 1) : ~(out[k] = "." /\ out[k + 1] = ".")
          /\ (allowed # <<>> /\ Len(wanted) <= FilenameLimit)
             => SelectSeq(out, AllowedChar) = allowed
          /\ out = unnamed_file \/ Len(out) <= FilenameLimit
          /\ (Len(wanted) > FilenameLimit /\ Len(Extension(name)) < FilenameLimit)
             => /\ Len(out) >= Len(Extension(name))
                /\ SubSeq(out, Len(out) - Len(Extension(name)) + 1, Len(out))
                   = Extension(name)
          /\ allowed = <<>> /\ SelectSeq(name, KeptChar) = <<>> => out = unnamed_file

----------------------------------------------------------------------------
(* The metadata extractor on absent or malformed metadata.                 *)

\* properties, compression and statistics that add no signal of their own
NoProperties == [format |-> "-", width |-> 0, height |-> 0]
NoCompression == [re_encoding_detected |-> FALSE, re_encoding_indicators |-> <<>>]

\* the bucket built from the metadata of a result alone
MetadataBucket(res) ==
    extract_forensic_indicators(res.exif, NoProperties, NoCompression, EmptyDict)

\* an identified image whose metadata is absent or does not parse
NoMetadata(m) ==
    /\ m.kind = "image"
    /\ m.identified
    /\ (m.exif_raises \/ DOMAIN m.exif = {})

\* C21: for an image whose metadata is absent or malformed the analysis
\* raises nothing and the metadata contributes no human, ai or
\* manipulation signal: the bucket built from the metadata alone holds
\* inconclusive signals only.
C21_AbsentMetadata ==
    (pc = "analyzed" /\ NoMetadata(media))
    => /\ "error" \notin DOMAIN result
       /\ LET b == MetadataBucket(result)
          IN /\ b.human_signals = <<>>
             /\ b.ai_signals = <<>>
             /\ b.manipulation_signals = <<>>
             /\ b.inconclusive_signals # <<>>

\* the manipulation signals the compression-ratio check can add
RatioSignals ==
    { Signal("Multiple re-encodings detected", <<>>),
      Signal("Unusually high compression (possible multiple re-encodings)", <<>>) }

\* C22: compression_ratio = byte_size / (width * height * channel_count);
\* a ratio below 0.05 adds exactly one manipulation signal, a ratio of
\* 0.05 or more adds none from this check, and a denominator of zero
\* skips the check without exception and without signal.
C22_CompressionRatio ==
    (pc = "analyzed" /\ media.kind = "image" /\ media.identified)
    => LET denominator == media.width * media.height * ModeLen(media.mode)
           manipulation == BucketOf(result).v.manipulation_signals
           added == Len(SelectSeq(manipulation, LAMBDA sig : sig \in RatioSignals))
       IN /\ "error" \notin DOMAIN result
          /\ IF denominator = 0 THEN added = 0
             ELSE IF 100 * media.file_size < 5 * denominator THEN added = 1
             ELSE added = 0

----------------------------------------------------------------------------
(* Error level analysis.                                                   *)

\* the state after error_level_analysis ran on a decodable image
ElaDone == pc = "analyzed" /\ media.kind = "ela" /\ media.decodable

\* the suspicion and confidence the breakpoints of the specification give
\* for a percentage and a deviation in thousandths, `otherwise` being the
\* confidence of an image that is not suspected
ElaExpected(pct, sd, otherwise) ==
    IF pct > 15 * 1000 /\ sd > 20 * 1000 THEN <<TRUE, "high">>
    ELSE IF pct > 10 * 1000 \/ sd > 15 * 1000 THEN <<TRUE, "medium">>
    ELSE IF pct > 5 * 1000 THEN <<TRUE, "low">>
    ELSE <<FALSE, otherwise>>

\* C23 as stated: error_level_analysis classifies from (high_error_pct,
\* std): suspected with confidence 'high' when pct > 15 and std > 20,
\* otherwise 'medium' when pct > 10 or std > 15, otherwise 'low' when
\* pct > 5, otherwise not suspected with confidence 'none'.
C23_ElaClassification ==
    ElaDone
    => <<result.ela_analysis.manipulation_suspected, result.ela_analysis.confidence>>
       = ElaExpected(media.high_error_percentage, media.std_error, "none")

\* C23 amended: the same breakpoints, but an image that is not suspected
\* has the confidence 'low'; 'none' is the confidence of a failed analysis.
C23_ElaClassificationLow ==
    /\ ElaDone
       => <<result.ela_analysis.manipulation_suspected, result.ela_analysis.confidence>>
          = ElaExpected(media.high_error_percentage, media.std_error, "low")
    /\ (pc = "analyzed" /\ media.kind = "ela" /\ ~media.decodable)
       => /\ ~result.ela_analysis.manipulation_suspected
          /\ result.ela_analysis.confidence = "none"

\* an image below every breakpoint was analysed
C23_Witness ==
    /\ ElaDone
    /\ media.high_error_percentage <= 5 * 1000
    /\ media.std_error <= 15 * 1000
    /\ ~result.ela_analysis.manipulation_suspected
    /\ result.ela_analysis.confidence = "low"

\* C29: in every result of error_level_analysis manipulation_suspected is
\* true exactly when the interpretation reports a strong, moderate or weak
\* indication of manipulation, never together with 'Error levels appear
\* consistent - no clear manipulation', and the indicators never list that
\* text as an [ELA] manipulation indicator.
C29_ElaConsistency ==
    ElaDone
    => LET ela == result.ela_analysis
           indicators == result.manipulation_indicators
       IN /\ ela.manipulation_suspected
             <=> ela.interpretation \in {ELA_STRONG, ELA_MODERATE, ELA_WEAK}
          /\ ~(ela.manipulation_suspected /\ ela.interpretation = ELA_CONSISTENT)
          /\ \A k \in 1..Len(indicators) :
                indicators[k][1] = "[ELA]" => indicators[k][2] # ELA_CONSISTENT

----------------------------------------------------------------------------
(* Copy-move detection.                                                    *)

\* the distance between two keypoints of one row
Apart(p, q) == IF p[1] >= q[1] THEN p[1] - q[1] ELSE q[1] - p[1]

\* the first points of the matches of an image that are no self-matches
\* and whose points are further apart than `limit`
RemainingPoints(m, limit) ==
    LET remaining ==
            SelectSeq(m.matches,
                      LAMBDA match : /\ match[1] # match[2]
                                     /\ Apart(m.keypoints[match[1]],
                                              m.keypoints[match[2]]) > limit)
    IN [k \in 1..Len(remaining) |-> m.keypoints[remaining[k][1]]]

\* the mean distance from p to the members of a cluster is below 50
MeanBelowFifty(p, cluster) ==
    LET RECURSIVE Total(_)
        Total(k) == IF k = 0 THEN 0 ELSE Apart(p, cluster[k]) + Total(k - 1)
    IN Total(Len(cluster)) < 50 * Len(cluster)

\* greedy clustering: each point joins the first cluster whose mean
\* distance to its members is below 50, or opens a new one
RECURSIVE Greedy(_, _)
Greedy(points, clusters) ==
    IF points = <<>> THEN clusters
    ELSE LET p == Head(points)
             fits == {c \in 1..Len(clusters) : MeanBelowFifty(p, clusters[c])}
         IN IF fits = {} THEN Greedy(Tail(points), Append(clusters, <<p>>))
            ELSE LET c == CHOOSE i \in fits : \A j \in fits : i <= j
                 IN Greedy(Tail(points), [clusters EXCEPT ![c] = Append(@, p)])

\* The suspicion and confidence for an image with at least 10 descriptors:
\* `limit` is the distance up to which a match is discarded, `strict` says
\* whether 'low' requires that no cluster has size >= 3, and `otherwise`
\* is the confidence when nothing is detected.
CopyMoveExpected(m, limit, strict, otherwise) ==
    LET points == RemainingPoints(m, limit)
        clusters == Greedy(points, <<>>)
        large == {c \in 1..Len(clusters) : Len(clusters[c]) >= 3}
    IN IF Cardinality(large) >= 2 THEN <<TRUE, "high">>
       ELSE IF \E c \in large : Len(clusters[c]) >= 5 THEN <<TRUE, "medium">>
       ELSE IF Len(points) > 20 /\ (strict => large = {}) THEN <<TRUE, "low">>
       ELSE <<FALSE, otherwise>>

\* the state after copy_move_detection ran on a decodable image
CopyMoveDone == pc = "analyzed" /\ media.kind = "copy_move" /\ media.decodable

\* with fewer than 10 descriptors: 'Insufficient features', not suspected
FewDescriptors ==
    /\ ~result.copy_move_suspected
    /\ result.interpretation = "Insufficient features for analysis"

\* C24 as stated: with fewer than 10 descriptors copy_move_detection
\* returns 'Insufficient features' with copy_move_suspected false;
\* otherwise, after discarding self-matches and matches closer than 30
\* pixels and clustering greedily, it reports 'high' when at least 2
\* clusters have size >= 3, 'medium' when exactly 1 cluster has size >= 3
\* and that cluster has size >= 5, 'low' when more than 20 matches remain
\* with no qualifying cluster, and otherwise copy_move_suspected false
\* with confidence 'none'.
C24_CopyMove ==
    CopyMoveDone
    => IF Len(media.keypoints) < 10 THEN FewDescriptors
       ELSE <<result.copy_move_suspected, result.confidence>>
            = CopyMoveExpected(media, 29, TRUE, "none")

\* C24 amended: a match is discarded when its points are 30 pixels apart
\* or less; 'low' is reported when more than 20 matches remain and neither
\* 'high' nor 'medium' applies, a single cluster of size 3 or 4
\* notwithstanding; and when nothing is detected the confidence is 'low'
\* ('none' with fewer than 10 descriptors or when the detection fails).
C24_CopyMoveAsCoded ==
    /\ CopyMoveDone
       => IF Len(media.keypoints) < 10
          THEN FewDescriptors /\ result.confidence = "none"
          ELSE /\ <<result.copy_move_suspected, result.confidence>>
                  = CopyMoveExpected(media, 30, FALSE, "low")
               /\ result.feature_matches = Len(RemainingPoints(media, 30))
    /\ (pc = "analyzed" /\ media.kind = "copy_move" /\ ~media.decodable)
       => ~result.copy_move_suspected /\ result.confidence = "none"

\* more than 20 matches remained, with one cluster of size 3 or 4
C24_Witness ==
    /\ CopyMoveDone
    /\ Len(media.keypoints) >= 10
    /\ result.similar_regions = 1
    /\ result.feature_matches > 20
    /\ result.copy_move_suspected
    /\ result.confidence = "low"

----------------------------------------------------------------------------
(* Audio whose property analysis fails.                                    *)

\* the signals the audio extractor derives from the audio properties
PropertySignals ==
    { Signal("Very low pitch variance (unnatural for human speech)", <<>>),
      Signal("Natural pitch variance detected", <<>>),
      Signal("Minimal silence gaps (uncommon in natural speech)", <<>>),
      Signal("Natural speech patterns with pauses", <<>>),
      Signal("Uniform energy levels (unnatural for real recordings)", <<>>) }

\* C25: when the audio decodes but the property analysis (pitch, silence,
\* energy, spectral centroid) fails and returns no properties,
\* analyze_audio still returns a bucket without raising, no ai or human
\* signal is derived from the missing properties, and the failure shows
\* in inconclusive_signals only.
C25_PartialAudioFailure ==
    (/\ pc = "analyzed" /\ media.kind = "audio"
     /\ media.available /\ media.decode_ok /\ media.properties.t = "None")
    => /\ HasBucket(result)
       /\ LET b == BucketOf(result).v
          IN /\ \A k \in 1..Len(b.ai_signals) : b.ai_signals[k] \notin PropertySignals
             /\ \A k \in 1..Len(b.human_signals) : b.human_signals[k] \notin PropertySignals
             /\ b.inconclusive_signals # <<>>

----------------------------------------------------------------------------
(* The weight of the secondary opinion.                                    *)

\* C26: for every bucket with num_human = 0 and num_ai = 0, whatever its
\* manipulation and inconclusive counts, and every opinion, fuse_evidence
\* returns the confidence 'low' and a classification that is 'Unclear /
\* Mixed Signals' or 'Inconclusive': the opinion alone never classifies.
C26_OpinionAloneNeverClassifies ==
    (/\ pc = "fused" /\ HasBucket(result) /\ WellTyped(opinion)
     /\ Count(result, "human_signals") = 0
     /\ Count(result, "ai_signals") = 0)
    => /\ ~verdict.raised
       /\ verdict.confidence = "low"
       /\ verdict.classification \in {"Unclear / Mixed Signals", "Inconclusive"}

\* an opinion sure of an AI origin met a bucket with manipulation signals
\* only
C26_Witness ==
    /\ pc = "fused" /\ HasBucket(result) /\ WellTyped(opinion)
    /\ Count(result, "human_signals") = 0
    /\ Count(result, "ai_signals") = 0
    /\ Count(result, "manipulation_signals") > 0
    /\ SaysAiGenerated(opinion) /\ IsStrong(opinion)
    /\ verdict.classification = "Inconclusive"

\* the well-typed opinions that carry an origin at most: the signal lists
\* of an opinion enter the indicators of a verdict only
BareOpinions ==
    { op \in WellTypedOpinions : DOMAIN op \subseteq {"origin"} }

\* C27: for a fixed bucket no two opinions give 'Likely AI-Generated' under
\* the one and 'Likely Original' under the other: whenever the verdict
\* under one opinion is 'Likely AI-Generated', no other opinion turns it
\* into 'Likely Original' (opinions taken without their signal lists).
C27_OpinionCannotFlip ==
    (/\ pc = "fused" /\ HasBucket(result) /\ opinion \in BareOpinions
     /\ verdict.classification = "Likely AI-Generated")
    => \A other \in BareOpinions :
          fuse_evidence(result, other).classification # "Likely Original"

\* a verdict 'Likely AI-Generated' on mixed signals that another opinion
\* changes
C27_Witness ==
    /\ pc = "fused" /\ HasBucket(result) /\ opinion \in BareOpinions
    /\ verdict.classification = "Likely AI-Generated"
    /\ Count(result, "human_signals") >= 1
    /\ \E other \in BareOpinions :
          fuse_evidence(result, other).classification = "Unclear / Mixed Signals"

\* C28: fuse_evidence returns the confidence 'high' only when the bucket
\* holds at least 2 ai signals and no human signal, at least 2 human
\* signals and no ai signal, or at least 3 manipulation signals and at
\* least one human signal; with fewer than 2 forensic signals in total
\* the confidence is never 'high'.
C28_HighNeedsCorroboration ==
    (pc = "fused" /\ HasBucket(result) /\ WellTyped(opinion))
    => LET h == Count(result, "human_signals")
           a == Count(result, "ai_signals")
           m == Count(result, "manipulation_signals")
       IN /\ ~verdict.raised
          /\ verdict.confidence = "high"
             => \/ a >= 2 /\ h = 0
                \/ h >= 2 /\ a = 0
                \/ m >= 3 /\ h >= 1
          /\ h + a + m < 2 => verdict.confidence # "high"

\* a hybrid verdict of confidence 'high', and a single signal with an
\* opinion of confidence 'high' fused to less
C28_Witness ==
    /\ pc = "fused" /\ HasBucket(result) /\ WellTyped(opinion)
    /\ \/ /\ verdict.classification = "Hybrid / Manipulated"
          /\ verdict.confidence = "high"
       \/ /\ Count(result, "human_signals") + Count(result, "ai_signals")
             + Count(result, "manipulation_signals") = 1
          /\ OpinionConfidence(opinion) = "high"
          /\ verdict.confidence = "medium"

----------------------------------------------------------------------------
(* Temporary files.                                                        *)

\* C30: when analyze_video or analyze_audio returns, on the success path
\* and on every failure path, every temporary media file and every
\* temporary frame file it created has been deleted.
C30_TempFilesReleased ==
    (pc = "returned" /\ media.kind \in {"video_file", "audio_file"})
    => files = {}

=============================================================================
